---------------------------- MODULE Spec2Model ----------------------------
(***************************************************************************)
(* substratecommon: request options (substratecommon.go) and the instance  *)
(* wrappers with their two coherence variants (substratewrapper.go).       *)
(*                                                                         *)
(* Strings are Go strings ("" is the zero value).  A Config is the closure *)
(* a With* function returns; it is written <<name, argument>> and applied  *)
(* to a RequestOptions record by Config(m, r).                             *)
(***************************************************************************)
EXTENDS Integers, Sequences, FiniteSets, TLC

\* ------------------------------------------------------------- bounds
\* number of transaction ids the backend hands out in one behaviour
MaxTx == 2
\* length of the option list a caller passes to one operation
MaxOpts == 2
\* number of Configs applied to one draft in SpecOptions
MaxApplied == 2
\* number of batch entries scheduled
MaxEntries == 2
\* number of values the timestamp source takes
MaxTime == 2
\* number of channel operations of Tick passes that fail
MaxFailures == 1
\* number of coherence wrappers made one on another
MaxDepth == 2
\* number of contexts made from context.Background()
MaxContexts == 3
\* number of times the program calls Connect
MaxConnects == 4
\* number of operations the closure passed to Connect makes on the Substrate
MaxOps == 3

\* ------------------------------------------------------------- values
\* the transaction ids of the backend, in the order it assigns them
TxName == <<"tx-1", "tx-2", "tx-3", "tx-4", "tx-5", "tx-6">>

\* a transaction id the caller knows from elsewhere and passes itself
UserTx == "tx-user"

\* contexts: the nil context, one without a dependentWrapper value, and
\* the contexts returned by ContextWithTransactionID (one per carrier)
NilCtx == "nil"

Background == "background"

Carriers == {"ctxA", "ctxB"}

\* the value of WithParams: the default []interface{}{}, a string, and a
\* value json.Marshal rejects (a channel)
ParamsDefault == "[]interface{}{}"

ParamsChan == "make(chan int)"

\* wall-clock readings of time.Now()
Epoch == "2000-01-01T00:00:00Z"

Clock == {Epoch, "2000-01-02T00:00:00Z"}

EmptyMap == [k \in {} |-> ""]

\* ------------------------------------------------------------- options
\* RequestOptions as FlattenOptions and FlattenContext create it
NewRequestOptions ==
    [ Log                 |-> "nil",
      LogFields           |-> EmptyMap,
      Headers             |-> EmptyMap,
      Endpoint            |-> "",
      ID                  |-> "",
      AuthToken           |-> "",
      Params              |-> ParamsDefault,
      Transient           |-> EmptyMap,
      Target              |-> "nil",
      TimestampGenerator  |-> "nil",
      MSPFilter           |-> <<>>,
      MinEndorsers        |-> 0,
      Creator             |-> "",
      Ctx                 |-> NilCtx,
      DependentTxID       |-> "",
      DisableWritePolling |-> FALSE,
      CCFetchURLDowngrade |-> FALSE,
      CCFetchURLProxy     |-> "" ]

\* m :> v @@ f for maps kept as functions
MapPut(f, k, v) == [x \in DOMAIN f \cup {k} |-> IF x = k THEN v ELSE f[x]]

WithContext(ctx, r) == [r EXCEPT !.Ctx = ctx]

WithLog(log, r) == [r EXCEPT !.Log = log]

WithLogField(key, value, r) == [r EXCEPT !.LogFields = MapPut(@, key, value)]

WithHeader(key, value, r) == [r EXCEPT !.Headers = MapPut(@, key, value)]

WithEndpoint(endpoint, r) == [r EXCEPT !.Endpoint = endpoint]

WithID(id, r) == [r EXCEPT !.ID = id]

WithParams(params, r) == [r EXCEPT !.Params = params]

WithTransientData(key, val, r) == [r EXCEPT !.Transient = MapPut(@, key, val)]

\* for key, val := range data { r.Transient[key] = val }
WithTransientDataMap(data, r) ==
    [r EXCEPT !.Transient = [x \in DOMAIN r.Transient \cup DOMAIN data |->
                               IF x \in DOMAIN data THEN data[x]
                               ELSE r.Transient[x]]]

WithResponse(target, r) == [r EXCEPT !.Target = target]

WithAuthToken(token, r) == [r EXCEPT !.AuthToken = token]

WithTimestampGenerator(tg, r) == [r EXCEPT !.TimestampGenerator = tg]

\* a plausible slip: the list appended to the filter already set
WithMSPFilter_Append(mspFilter, r) == [r EXCEPT !.MSPFilter = @ \o mspFilter]

WithMSPFilter(mspFilter, r) == [r EXCEPT !.MSPFilter = mspFilter]

WithMinEndorsers(minEndorsers, r) == [r EXCEPT !.MinEndorsers = minEndorsers]

WithCreator(creator, r) == [r EXCEPT !.Creator = creator]

WithDependentTxID(txID, r) == [r EXCEPT !.DependentTxID = txID]

\* a plausible slip: the condition dropped (the id is always set)
WithConditionalDependentTxID_Always(txID, r) == [r EXCEPT !.DependentTxID = txID]

\* a plausible slip: "fill the gap", set only when nothing is set yet
WithConditionalDependentTxID_FillGap(txID, r) ==
    IF r.DependentTxID = "" THEN [r EXCEPT !.DependentTxID = txID] ELSE r

WithConditionalDependentTxID(txID, r) ==
    IF r.DisableWritePolling \/ r.DependentTxID # ""
    THEN [r EXCEPT !.DependentTxID = txID]
    ELSE r

WithDisableWritePolling(disable, r) == [r EXCEPT !.DisableWritePolling = disable]

WithCCFetchURLDowngrade(downgrade, r) == [r EXCEPT !.CCFetchURLDowngrade = downgrade]

WithCCFetchURLProxy(proxy, r) == [r EXCEPT !.CCFetchURLProxy = proxy]

\* config(opt): the closure m applied to the draft r
Config(m, r) ==
    CASE m[1] = "WithContext"                  -> WithContext(m[2], r)
      [] m[1] = "WithLog"                      -> WithLog(m[2], r)
      [] m[1] = "WithLogField"                 -> WithLogField(m[2], m[3], r)
      [] m[1] = "WithHeader"                   -> WithHeader(m[2], m[3], r)
      [] m[1] = "WithEndpoint"                 -> WithEndpoint(m[2], r)
      [] m[1] = "WithID"                       -> WithID(m[2], r)
      [] m[1] = "WithParams"                   -> WithParams(m[2], r)
      [] m[1] = "WithTransientData"            -> WithTransientData(m[2], m[3], r)
      [] m[1] = "WithTransientDataMap"         -> WithTransientDataMap(m[2], r)
      [] m[1] = "WithResponse"                 -> WithResponse(m[2], r)
      [] m[1] = "WithAuthToken"                -> WithAuthToken(m[2], r)
      [] m[1] = "WithTimestampGenerator"       -> WithTimestampGenerator(m[2], r)
      [] m[1] = "WithMSPFilter"                -> WithMSPFilter(m[2], r)
      [] m[1] = "WithMinEndorsers"             -> WithMinEndorsers(m[2], r)
      [] m[1] = "WithCreator"                  -> WithCreator(m[2], r)
      [] m[1] = "WithDependentTxID"            -> WithDependentTxID(m[2], r)
      [] m[1] = "WithConditionalDependentTxID" -> WithConditionalDependentTxID(m[2], r)
      [] m[1] = "WithDisableWritePolling"      -> WithDisableWritePolling(m[2], r)
      [] m[1] = "WithCCFetchURLDowngrade"      -> WithCCFetchURLDowngrade(m[2], r)
      [] m[1] = "WithCCFetchURLProxy"          -> WithCCFetchURLProxy(m[2], r)

\* for _, config := range configs { config(opt) }
RECURSIVE ApplyConfigs(_, _)
ApplyConfigs(configs, r) ==
    IF configs = <<>> THEN r
    ELSE ApplyConfigs(Tail(configs), Config(Head(configs), r))

\* json.Marshal of the Params value: the bytes, or the error
jsonMarshal(params) ==
    CASE params = ParamsDefault -> [err |-> "",  bytes |-> "[]"]
      [] params = ParamsChan    -> [err |-> "json: unsupported type: chan int", bytes |-> ""]
      [] params = "nil"         -> [err |-> "",  bytes |-> "null"]
      [] OTHER                  -> [err |-> "",  bytes |-> "\"" \o params \o "\""]

\* a plausible slip: the wall clock read although a generator is set
tsg_Clock(tg, now) == now

\* tsg: the generator's string, or the wall clock formatted
tsg(tg, now) == IF tg # "nil" THEN tg ELSE now

\* FlattenOptions(configs...): (options, error); now is time.Now()
FlattenOptions(configs, now) ==
    LET opt    == ApplyConfigs(configs, NewRequestOptions)
        params == jsonMarshal(opt.Params)
    IN  IF params.err # ""
        THEN [err |-> params.err, fo |-> "nil"]
        ELSE [err |-> "",
              fo  |-> [ Headers             |-> opt.Headers,
                        Endpoint            |-> opt.Endpoint,
                        ID                  |-> opt.ID,
                        AuthToken           |-> opt.AuthToken,
                        Params              |-> params.bytes,
                        Transient           |-> opt.Transient,
                        Timestamp           |-> tsg(opt.TimestampGenerator, now),
                        MSPFilter           |-> opt.MSPFilter,
                        MinEndorsers        |-> opt.MinEndorsers,
                        Creator             |-> opt.Creator,
                        DependentTxID       |-> opt.DependentTxID,
                        DisableWritePolling |-> opt.DisableWritePolling,
                        CCFetchURLDowngrade |-> opt.CCFetchURLDowngrade,
                        CCFetchURLProxy     |-> opt.CCFetchURLProxy ]]

\* a plausible slip: the parameters serialized as FlattenOptions does
FlattenContext_Marshal(configs) ==
    LET opt == ApplyConfigs(configs, NewRequestOptions)
    IN  IF jsonMarshal(opt.Params).err # ""
        THEN [err |-> jsonMarshal(opt.Params).err, ctx |-> NilCtx]
        ELSE IF opt.Ctx = NilCtx
        THEN [err |-> "expected context", ctx |-> NilCtx]
        ELSE [err |-> "", ctx |-> opt.Ctx]

\* FlattenContext(configs...): (context, error)
FlattenContext(configs) ==
    LET opt == ApplyConfigs(configs, NewRequestOptions)
    IN  IF opt.Ctx = NilCtx
        THEN [err |-> "expected context", ctx |-> NilCtx]
        ELSE [err |-> "", ctx |-> opt.Ctx]

\* ------------------------------------------------------------- wrappers
\* "rpc" is an instance handle (substrateInstanceWrapperRPC or ...Mock),
\* "coh" the mutable-state wrapper created on it by NewCoherent, and
\* "ctx" the context-scoped wrapper created on it by NewContextCoherent
Wrappers == {"rpc", "coh", "ctx"}

\* the callers: goroutines that issue one operation at a time
Chains == {"c1", "c2"}

VARIABLES
    dependent,  \* substrateInstanceWrapperCoherent.dependent of "coh"
    slot,       \* dependentWrapper.dependent of each carrier
    nextTx,     \* how many transaction ids the backend has assigned
    pc,         \* per chain: "idle", "waiting" for the backend's reply,
                \* or "returned" (the operation has returned to the caller)
    call,       \* per chain: the operation it is in
    result,     \* per chain: what that operation returned
    lastRet,    \* history: id of the last successful Call per chain key
    returned,   \* history: ids returned to the Calls made with each carrier
    opt,        \* SpecOptions: the draft the Configs are applied to
    prevOpt,    \* SpecOptions: the draft before the last Config
    applied,    \* SpecOptions: the Configs applied so far
    siwc,       \* SpecShared: the substrateInstanceWrapperCoherent objects
    issued,     \* SpecShared history: who got each transaction id
    lastDone,   \* SpecShared history: per wrapper, the id of the Call the
                \* backend completed last
    overlapped, \* SpecShared history: per wrapper, has a Call begun while
                \* another caller was in a Call on it
    registry,   \* batch driver: the handler registered per queue name
    registered, \* batch driver: what the last Register returned
    tsString,   \* the value the timestamp source returns
    pending,    \* backend: the batch entries persisted, in scheduling order
    nextReq,    \* backend: how many batch entries were scheduled
    recent,     \* backend: RECENT_INPUT, the last result the phylum recorded
    tick,       \* per ticker: the Tick pass it is in, or was in last
    failures,   \* how many channel operations of Tick passes have failed
    hist,       \* history per batch entry: handler invocations in all
                \* passes, a follow-up lost, the follow-ups that landed, the
                \* handler failed, a pass found it not yet due, two passes
                \* in progress at once fetched it
    runs,       \* SpecFlatten history: what two runs of FlattenOptions and
                \* FlattenContext were given and returned
    layers,     \* SpecNested: the wrappers made one on another, the one
                \* the caller holds first
    wire,       \* SpecChannel: the net/rpc exchange of the stub in progress
    invoked,    \* SpecChannel history: the calls made on the backend
                \* implementation in this exchange
    got,        \* SpecChannel: what the stub returned to its caller
    backing,    \* SpecAlias: the array cell behind the option list the
                \* callers pass, and who wrote it
    conn,       \* SpecConnect: the Connect in progress and the backend
                \* processes started and killed
    contexts    \* SpecContext: the contexts made, each with its parent and
                \* the dependentWrapper it holds, if any

chainVars == <<dependent, slot, nextTx, pc, call, result, lastRet, returned>>

optVars == <<opt, prevOpt, applied>>

instVars == <<siwc, issued, lastDone, overlapped>>

batchVars == <<registry, registered, tsString, pending, nextReq, recent, tick,
               failures, hist>>

flatVars == <<runs>>

nestVars == <<layers>>

rpcVars == <<wire, invoked, got>>

aliasVars == <<backing>>

connVars == <<conn>>

treeVars == <<contexts>>

\* the variables of SpecAlias, SpecConnect and SpecContext
lateVars == <<aliasVars, connVars, treeVars>>

\* what the operations on the wrappers of Spec leave alone
nonChainVars == <<optVars, instVars, batchVars, flatVars, nestVars, rpcVars,
                 lateVars>>

\* what the fold of FlattenOptions leaves alone
nonOptVars == <<chainVars, instVars, batchVars, flatVars, nestVars, rpcVars,
                 lateVars>>

\* what the batch driver leaves alone
nonBatchVars == <<chainVars, optVars, instVars, flatVars, nestVars, rpcVars,
                 lateVars>>

\* what two runs of the Flatten functions leave alone
nonFlatVars == <<chainVars, optVars, instVars, batchVars, nestVars, rpcVars,
                 lateVars>>

\* what an exchange of the stub leaves alone
nonRpcVars == <<chainVars, optVars, instVars, batchVars, flatVars, nestVars,
                 lateVars>>

vars == <<dependent, slot, nextTx, pc, call, result, lastRet, returned,
          opt, prevOpt, applied, siwc, issued, lastDone, overlapped,
          registry, registered, tsString, pending, nextReq, recent, tick,
          failures, hist, runs, layers, wire, invoked, got,
          backing, conn, contexts>>

NoCall == [op |-> "none"]

NoResult == [op |-> "none"]

\* the options a caller passes beside a context: a dependency of its own,
\* the polling switch either way, and parameters json.Marshal rejects
DependencyConfigs ==
    { <<"WithDependentTxID", UserTx>>,
      <<"WithDependentTxID", "">>,
      <<"WithConditionalDependentTxID", UserTx>>,
      <<"WithDisableWritePolling", TRUE>>,
      <<"WithDisableWritePolling", FALSE>>,
      <<"WithParams", ParamsChan>> }

\* the options a caller of the context-scoped wrapper passes: the context
\* of a carrier or one without, and options as above
ContextConfigs ==
    { <<"WithContext", "ctxA">>,
      <<"WithContext", "ctxB">>,
      <<"WithContext", Background>>,
      <<"WithDependentTxID", UserTx>>,
      <<"WithConditionalDependentTxID", UserTx>>,
      <<"WithDisableWritePolling", TRUE>>,
      <<"WithParams", ParamsChan>> }

SeqsUpTo(S, n) == UNION {[1..k -> S] : k \in 0..n}

\* the options passed to the instance handle itself and to the queries
HandleConfigs ==
    { <<"WithContext", "ctxA">>,
      <<"WithDependentTxID", UserTx>>,
      <<"WithParams", ParamsChan>> }

DependencyLists == SeqsUpTo(DependencyConfigs, MaxOpts)

ContextLists == SeqsUpTo(ContextConfigs, MaxOpts)

HandleLists == SeqsUpTo(HandleConfigs, MaxOpts)

\* the option lists passed to Call on wrapper w
OptionLists(w) ==
    CASE w = "coh" -> DependencyLists
      [] w = "ctx" -> ContextLists
      [] w = "rpc" -> HandleLists

\* the block numbers asked for
Heights == {0, 1}

\* ctx.Value(dependentKey).(*dependentWrapper): (dw, ok)
ContextValue(ctx) ==
    IF ctx \in Carriers THEN [ok |-> TRUE, dw |-> ctx]
                        ELSE [ok |-> FALSE, dw |-> "nil"]

\* a plausible slip: the stored id injected with WithDependentTxID
CoherentConfigs2_Overwrite(d, configs) ==
    IF d # "" THEN Append(configs, <<"WithDependentTxID", d>>) ELSE configs

\* a plausible slip: the stored id appended without the test for ""
CoherentConfigs2_Unguarded(d, configs) ==
    Append(configs, <<"WithConditionalDependentTxID", d>>)

\* substrateInstanceWrapperCoherent.Call: configs2
CoherentConfigs2(d, configs) ==
    IF d # ""
    THEN Append(configs, <<"WithConditionalDependentTxID", d>>)
    ELSE configs

\* a plausible slip: the id stored before the error is looked at
CoherentReturn_Always(d, err, txid) == txid

\* a plausible slip: an empty id of the Response is not stored
CoherentReturn_KeepOnEmpty(d, err, txid) ==
    IF err # "" \/ txid = "" THEN d ELSE txid

\* substrateInstanceWrapperCoherent.Call: siwc.dependent after the
\* underlying Call returned (resp.TransactionID = txid, err)
CoherentReturn(d, err, txid) == IF err # "" THEN d ELSE txid

\* substrateInstanceWrapperContextCoherent.Call: (dw, ok)
ContextCoherentCarrier(configs) ==
    LET fc  == FlattenContext(configs)
        ctx == IF fc.err # "" THEN Background ELSE fc.ctx
    IN  ContextValue(ctx)

\* a plausible slip: the slot's id put in front of the caller's options
ContextCoherentConfigs2_Prepend(configs) ==
    LET v == ContextCoherentCarrier(configs)
    IN  IF v.ok /\ slot[v.dw] # ""
        THEN <<<<"WithDependentTxID", slot[v.dw]>>>> \o configs
        ELSE configs

\* a plausible slip: one slot for all carriers
ContextCoherentConfigs2_Shared(configs) ==
    LET v == ContextCoherentCarrier(configs)
    IN  IF v.ok /\ slot["ctxA"] # ""
        THEN Append(configs, <<"WithDependentTxID", slot["ctxA"]>>)
        ELSE configs

\* a plausible slip: a missing carrier falls back to the first one
ContextCoherentConfigs2_Default(configs) ==
    LET v == ContextCoherentCarrier(configs)
        k == IF v.ok THEN v.dw ELSE "ctxA"
    IN  IF slot[k] # ""
        THEN Append(configs, <<"WithDependentTxID", slot[k]>>)
        ELSE configs

\* substrateInstanceWrapperContextCoherent.Call: configs2
ContextCoherentConfigs2(configs) ==
    LET v == ContextCoherentCarrier(configs)
    IN  IF v.ok /\ slot[v.dw] # ""
        THEN Append(configs, <<"WithDependentTxID", slot[v.dw]>>)
        ELSE configs

\* a plausible slip: the slot written before the error is looked at
ContextCoherentReturn_Always(ok, d, err, txid) == IF ok THEN txid ELSE d

\* a plausible slip: a Response without transaction id keeps the slot
ContextCoherentReturn_KeepOnEmpty(ok, d, err, txid) ==
    IF err # "" \/ txid = "" THEN d ELSE IF ok THEN txid ELSE d

\* substrateInstanceWrapperContextCoherent.Call: dw.dependent after the
\* underlying Call returned
ContextCoherentReturn(ok, d, err, txid) ==
    IF err # "" THEN d ELSE IF ok THEN txid ELSE d

\* the options that reach the instance handle's Call for a Call on w
Configs2(w, configs) ==
    CASE w = "rpc" -> configs
      [] w = "coh" -> CoherentConfigs2(dependent, configs)
      [] w = "ctx" -> ContextCoherentConfigs2(configs)

\* the carrier a Call on w works with ("none": no slot is involved)
CarrierOf(w, configs) ==
    IF w = "ctx" /\ ContextCoherentCarrier(configs).ok
    THEN ContextCoherentCarrier(configs).dw
    ELSE "none"

\* does the caller's list hold an option of this name
HasOption(configs, names) == \E i \in 1..Len(configs) : configs[i][1] \in names

\* what the backend answers to Substrate.Call: the generic RPC failure, a
\* structured Error, a Response without transaction id, or one with the
\* next transaction id
CallReplies ==
    { [err |-> "RPC failure", txid |-> ""],
      [err |-> "backend: failed", txid |-> ""],
      [err |-> "", txid |-> ""] }
    \cup (IF nextTx < MaxTx THEN {[err |-> "", txid |-> TxName[nextTx + 1]]} ELSE {})

\* ------------------------------------------------------------- actions
\* the record of an operation op on wrapper w that chain c is in: sent is
\* what FlattenOptions made of the list that reached the instance handle,
\* plain what it makes of the caller's own list
Request(op, w, configs, now, fl) ==
    [ op       |-> op,
      wrapper  |-> w,
      carrier  |-> CarrierOf(w, configs),
      bare     |-> ~HasOption(configs, {"WithDependentTxID",
                                        "WithConditionalDependentTxID",
                                        "WithDisableWritePolling"}),
      explicit |-> \E i \in 1..Len(configs) :
                      configs[i] \in {<<"WithDisableWritePolling", FALSE>>,
                                      <<"WithDependentTxID", "">>},
      plain    |-> FlattenOptions(configs, now),
      sent     |-> fl ]

\* what an operation op on wrapper w returned to its caller
Returned(op, w, k, err, txid) ==
    [op |-> op, wrapper |-> w, carrier |-> k, err |-> err, txid |-> txid]

\* a plausible slip: the error of FlattenOptions is not looked at
CallBegin_SendAnyway(c, w, configs, now) ==
    /\ pc[c] = "idle"
    /\ pc' = [pc EXCEPT ![c] = "waiting"]
    /\ call' = [call EXCEPT ![c] =
           Request("Call", w, configs, now, FlattenOptions(Configs2(w, configs), now))]
    /\ UNCHANGED <<dependent, slot, nextTx, result, lastRet, returned, nonChainVars>>

\* Call(method, configs...) on wrapper w up to Substrate.Call; an error of
\* FlattenOptions is returned at once
CallBegin(c, w, configs, now) ==
    /\ pc[c] = "idle"
    /\ LET configs2 == Configs2(w, configs)
           fl       == FlattenOptions(configs2, now)
       IN  IF fl.err # ""
           THEN /\ pc' = [pc EXCEPT ![c] = "returned"]
                /\ result' = [result EXCEPT ![c] =
                       Returned("Call", w, CarrierOf(w, configs), fl.err, "")]
                /\ UNCHANGED call
           ELSE /\ pc' = [pc EXCEPT ![c] = "waiting"]
                /\ call' = [call EXCEPT ![c] = Request("Call", w, configs, now, fl)]
                /\ UNCHANGED result
    /\ UNCHANGED <<dependent, slot, nextTx, lastRet, returned, nonChainVars>>

\* the reply of Substrate.Call and the rest of Call on the wrapper
CallEnd(c, reply) ==
    /\ pc[c] = "waiting"
    /\ call[c].op = "Call"
    /\ reply \in CallReplies
    /\ LET w == call[c].wrapper
           k == call[c].carrier
       IN  /\ dependent' = IF w = "coh"
                           THEN CoherentReturn(dependent, reply.err, reply.txid)
                           ELSE dependent
           /\ slot' = IF w = "ctx"
                      THEN [x \in Carriers |->
                              ContextCoherentReturn(x = k, slot[x], reply.err, reply.txid)]
                      ELSE slot
           /\ lastRet' = IF reply.err # "" THEN lastRet
                         ELSE IF w = "coh" THEN [lastRet EXCEPT !["coh"] = reply.txid]
                         ELSE IF k # "none" THEN [lastRet EXCEPT ![k] = reply.txid]
                         ELSE lastRet
           /\ returned' = IF reply.err = "" /\ reply.txid # "" /\ k # "none"
                          THEN [returned EXCEPT ![k] = @ \cup {reply.txid}]
                          ELSE returned
           /\ result' = [result EXCEPT ![c] =
                            Returned("Call", w, k, reply.err, reply.txid)]
    /\ nextTx' = IF reply.err = "" /\ reply.txid # "" THEN nextTx + 1 ELSE nextTx
    /\ pc' = [pc EXCEPT ![c] = "returned"]
    /\ call' = [call EXCEPT ![c] = NoCall]
    /\ UNCHANGED nonChainVars

\* Init(phylum, configs...) on wrapper w up to Substrate.Init: every
\* wrapper hands the options to its underlying wrapper unchanged, and the
\* instance handle flattens them
InitPhylum(c, w, configs, now) ==
    /\ pc[c] = "idle"
    /\ LET fl == FlattenOptions(configs, now)
       IN  IF fl.err # ""
           THEN /\ pc' = [pc EXCEPT ![c] = "returned"]
                /\ result' = [result EXCEPT ![c] =
                       Returned("Init", w, "none", fl.err, "")]
                /\ UNCHANGED call
           ELSE /\ pc' = [pc EXCEPT ![c] = "waiting"]
                /\ call' = [call EXCEPT ![c] =
                       [op |-> "Init", wrapper |-> w, sent |-> [err |-> fl.err]]]
                /\ UNCHANGED result
    /\ UNCHANGED <<dependent, slot, nextTx, lastRet, returned, nonChainVars>>

\* QueryInfo(configs...) on wrapper w up to Substrate.QueryInfo: every
\* wrapper hands the options to its underlying wrapper unchanged, and the
\* instance handle flattens them
QueryInfo(c, w, configs, now) ==
    /\ pc[c] = "idle"
    /\ LET fl == FlattenOptions(configs, now)
       IN  IF fl.err # ""
           THEN /\ pc' = [pc EXCEPT ![c] = "returned"]
                /\ result' = [result EXCEPT ![c] =
                       Returned("QueryInfo", w, "none", fl.err, "")]
                /\ UNCHANGED call
           ELSE /\ pc' = [pc EXCEPT ![c] = "waiting"]
                /\ call' = [call EXCEPT ![c] =
                       [op |-> "QueryInfo", wrapper |-> w, sent |-> [err |-> fl.err]]]
                /\ UNCHANGED result
    /\ UNCHANGED <<dependent, slot, nextTx, lastRet, returned, nonChainVars>>

\* QueryBlock(blockNumber, configs...) on wrapper w up to
\* Substrate.QueryBlock
QueryBlock(c, w, blockNumber, configs, now) ==
    /\ pc[c] = "idle"
    /\ LET fl == FlattenOptions(configs, now)
       IN  IF fl.err # ""
           THEN /\ pc' = [pc EXCEPT ![c] = "returned"]
                /\ result' = [result EXCEPT ![c] =
                       Returned("QueryBlock", w, "none", fl.err, "")]
                /\ UNCHANGED call
           ELSE /\ pc' = [pc EXCEPT ![c] = "waiting"]
                /\ call' = [call EXCEPT ![c] =
                       [op |-> "QueryBlock", wrapper |-> w, height |-> blockNumber,
                        sent |-> [err |-> fl.err]]]
                /\ UNCHANGED result
    /\ UNCHANGED <<dependent, slot, nextTx, lastRet, returned, nonChainVars>>

\* what Substrate.Init, Substrate.QueryInfo and Substrate.QueryBlock
\* answer: the generic RPC failure, a structured Error, or no error (with
\* the height or block)
QueryReplies == {"RPC failure", "backend: failed", ""}

Queries == {"QueryInfo", "QueryBlock"}

\* the operations every wrapper hands on as they are
Forwarded == {"Init"} \cup Queries

\* a plausible slip: a query handled like a Call, the chain state taking
\* the (absent) transaction id of its answer
QueryEnd_AsCall(c, reply) ==
    /\ pc[c] = "waiting"
    /\ call[c].op \in Forwarded
    /\ reply \in QueryReplies
    /\ dependent' = IF call[c].wrapper = "coh" /\ reply = "" THEN "" ELSE dependent
    /\ slot' = IF call[c].wrapper = "ctx" /\ reply = ""
               THEN [k \in Carriers |-> ""] ELSE slot
    /\ result' = [result EXCEPT ![c] =
                     Returned(call[c].op, call[c].wrapper, "none", reply, "")]
    /\ pc' = [pc EXCEPT ![c] = "returned"]
    /\ call' = [call EXCEPT ![c] = NoCall]
    /\ UNCHANGED <<nextTx, lastRet, returned, nonChainVars>>

\* the reply of Substrate.Init, Substrate.QueryInfo or
\* Substrate.QueryBlock, returned by the instance handle and by every
\* wrapper as it is
QueryEnd(c, reply) ==
    /\ pc[c] = "waiting"
    /\ call[c].op \in Forwarded
    /\ reply \in QueryReplies
    /\ result' = [result EXCEPT ![c] =
                     Returned(call[c].op, call[c].wrapper, "none", reply, "")]
    /\ pc' = [pc EXCEPT ![c] = "returned"]
    /\ call' = [call EXCEPT ![c] = NoCall]
    /\ UNCHANGED <<dependent, slot, nextTx, lastRet, returned, nonChainVars>>

\* the caller has the result and is free to issue its next operation
Return(c) ==
    /\ pc[c] = "returned"
    /\ pc' = [pc EXCEPT ![c] = "idle"]
    /\ result' = [result EXCEPT ![c] = NoResult]
    /\ UNCHANGED <<dependent, slot, nextTx, call, lastRet, returned, nonChainVars>>

\* ------------------------------------------------------------- Spec
\* one caller: every operation returns before the next one is issued
InitChains ==
    /\ dependent = ""
    /\ slot = [k \in Carriers |-> ""]
    /\ nextTx = 0
    /\ pc = [c \in Chains |-> "idle"]
    /\ call = [c \in Chains |-> NoCall]
    /\ result = [c \in Chains |-> NoResult]
    /\ lastRet = [k \in {"coh"} \cup Carriers |-> "none"]
    /\ returned = [k \in Carriers |-> {}]

\* the wrappers NewCoherent may make on the one instance handle
Instances == {"w1", "w2"}

\* no mutable-state wrapper has been made yet
InitInstances ==
    /\ siwc = [i \in Instances |-> [underlying |-> "nil", dependent |-> ""]]
    /\ issued = {}
    /\ lastDone = [i \in Instances |-> "none"]
    /\ overlapped = [i \in Instances |-> FALSE]

\* ------------------------------------------------------------- batch
\* the queue names of the phylum: the driver's caller registers a handler
\* for test_batch
QueueNames == {"test_batch", "init_batch"}

\* the handlers a caller may register: the one of Test001 and another
Handlers == {"Test001", "other"}

\* the tick intervals a caller may register with
Intervals == {"1h", "2h"}

\* what the phylum's init endpoint schedules for init_batch
InitMessage == "(sorted-map)"

\* the messages scheduled
Messages == {"ping1", "ping2"}

\* the values of the timestamp source, in their order
Times == 1..MaxTime

\* the tickers: goroutines that run Tick passes
Tickers == {"t1", "t2"}

NotRegistered == [handler |-> "none", interval |-> "none"]

\* no Register has just returned
NoRegister ==
    [queue |-> "none", handler |-> "none", interval |-> "none", err |-> ""]

\* a ticker that has run no pass yet
NoPass ==
    [ phase   |-> "Idle",
      queue   |-> "none",
      now     |-> 0,
      fetched |-> "none",
      due     |-> <<>>,
      i       |-> 0,
      outcome |-> "none",
      handled |-> <<>>,
      reports |-> <<>> ]

NoHistory ==
    [dispatched |-> 0, lost |-> FALSE, landed |-> 0, bad |-> FALSE, early |-> FALSE,
     raced |-> FALSE]

InitBatch ==
    /\ registry = [q \in QueueNames |-> NotRegistered]
    /\ registered = NoRegister
    /\ tsString = 1
    /\ pending = <<>>
    /\ nextReq = 0
    /\ recent = ""
    /\ tick = [t \in Tickers |-> NoPass]
    /\ failures = 0
    /\ hist = [id \in 1..MaxEntries |-> NoHistory]

\* the handler of Test001 and one that fails on every message
Handler(h, message) ==
    IF h = "Test001"
    THEN CASE message = "ping1" -> [reply |-> "pong1", err |-> ""]
           [] message = "ping2" -> [reply |-> "", err |-> "ping2 error"]
           [] message = "ping3" -> [reply |-> "pong3", err |-> ""]
    ELSE [reply |-> "", err |-> "other error"]

\* a plausible slip: the failure recorded without its marker
PhylumHandler_NoMarker(rep, bad) == IF bad # "" THEN bad ELSE rep

\* the phylum's handler of test_batch: what it stores as RECENT_INPUT for a
\* reply rep or a failure description bad
PhylumHandler(rep, bad) ==
    IF bad # "" THEN "error:" \o " " \o bad ELSE rep

RECURSIVE SelectDue(_, _, _)
\* the entries of queue q due at or before now, in the backend's order
SelectDue(entries, q, now) ==
    IF entries = <<>> THEN <<>>
    ELSE LET e == Head(entries)
             rest == SelectDue(Tail(entries), q, now)
         IN  IF e.batchName = q /\ e.scheduledTime <= now
             THEN <<e>> \o rest ELSE rest

\* a plausible slip: the entry stays persisted after its follow-up
Without_Keep(entries, id) == entries

RECURSIVE Without(_, _)
\* the entries without the one of request id
Without(entries, id) ==
    IF entries = <<>> THEN <<>>
    ELSE IF Head(entries).requestID = id THEN Without(Tail(entries), id)
    ELSE <<Head(entries)>> \o Without(Tail(entries), id)

\* no ticker is in a Tick pass
AllIdle == \A t \in Tickers : tick[t].phase = "Idle"

\* ------------------------------------------------------------- flatten
\* the two runs of the Flatten functions that are compared
RunNames == {"first", "second"}

NoRun == [done |-> FALSE]

InitFlatten == runs = [k \in RunNames |-> NoRun]

\* ------------------------------------------------------------- nesting
\* the caller holds the instance handle itself
InitNested == layers = <<>>

\* ------------------------------------------------------------- channel
\* the methods of the Substrate interface that go over net/rpc
ChannelOps ==
    { "NewRPC", "CloseRPC", "NewMockFrom", "SetCreatorWithAttributesMock",
      "SnapshotMock", "CloseMock", "Init", "Call", "QueryInfo", "QueryBlock" }

\* the fields of the Args struct of each method
ArgFields(op) ==
    CASE op = "NewRPC"      -> {}
      [] op = "CloseRPC"    -> {"Tag"}
      [] op = "NewMockFrom" -> {"Name", "Version", "Snapshot"}
      [] op = "SetCreatorWithAttributesMock" -> {"Tag", "Creator", "Attrs"}
      [] op = "SnapshotMock" -> {"Tag"}
      [] op = "CloseMock"   -> {"Tag"}
      [] op = "Init"        -> {"Tag", "Phylum", "Options"}
      [] op = "Call"        -> {"Tag", "Command", "Options"}
      [] op = "QueryInfo"   -> {"Tag", "Options"}
      [] op = "QueryBlock"  -> {"Tag", "Height", "Options"}

\* the field of the Resp struct of each method that holds its result
\* (beside Err); "none" for the methods that return an error only
ResultField(op) ==
    CASE op \in {"NewRPC", "NewMockFrom"} -> "Tag"
      [] op = "SnapshotMock" -> "Snapshot"
      [] op = "Call"         -> "Response"
      [] op = "QueryInfo"    -> "Height"
      [] op = "QueryBlock"   -> "Block"
      [] OTHER               -> "none"

RespFields(op) ==
    IF ResultField(op) = "none" THEN {"Err"} ELSE {"Err", ResultField(op)}

\* no error
NilError == [type |-> "nil"]

\* the zero value of a field of a Resp or Args struct (a uint64 is written
\* as its numeral)
Zero(field) ==
    CASE field = "Err"    -> NilError
      [] field \in {"Response", "Block", "Snapshot"} -> "nil"
      [] field = "Height" -> "0"
      [] OTHER            -> ""

\* the values the caller passes: two block numbers, one value for every
\* other argument
ArgValues(field) ==
    IF field = "Height" THEN {"0", "1"} ELSE {"a " \o field}

\* the argument lists a method may be called with
ArgsOf(op) ==
    {a \in [ArgFields(op) -> UNION {ArgValues(f) : f \in ArgFields(op)}] :
        \A f \in ArgFields(op) : a[f] \in ArgValues(f)}

\* var errRPC = fmt.Errorf("RPC failure")
errRPC == [type |-> "*errors.errorString", text |-> "RPC failure"]

\* the errors of the backend implementation, with what its own
\* IsTimeoutError says of them
BackendErrors ==
    { [type |-> "backend", text |-> "backend: failed",    timeout |-> FALSE],
      [type |-> "backend", text |-> "backend: timed out", timeout |-> TRUE] }

\* err.Error()
ErrorText(err) ==
    CASE err.type = "*Error" -> err.Diagnostic
      [] err.type = "Error"  -> err.Diagnostic
      [] OTHER                -> err.text

NoExchange == [phase |-> "idle"]

NoReturn == [op |-> "none"]

InitChannel ==
    /\ wire = NoExchange
    /\ invoked = <<>>
    /\ got = NoReturn

\* the spare cell of the callers' option list holds no Config yet
NoConfig == [config |-> <<"nil", "">>, by |-> "none"]

InitAlias == backing = NoConfig

\* no Connect yet
NoConnect ==
    [phase |-> "none", connects |-> 0, started |-> 0, killed |-> 0,
     ops |-> 0, user |-> "none", ret |-> "none"]

InitConnect == conn = NoConnect

InitContexts == contexts = <<>>

Init ==
    /\ InitChains
    /\ opt = NewRequestOptions
    /\ prevOpt = NewRequestOptions
    /\ applied = <<>>
    /\ InitInstances
    /\ InitBatch
    /\ InitFlatten
    /\ InitNested
    /\ InitChannel
    /\ InitAlias
    /\ InitConnect
    /\ InitContexts

Next ==
    \/ \E w \in Wrappers : \E configs \in OptionLists(w), now \in Clock :
          CallBegin("c1", w, configs, now)
    \/ \E reply \in CallReplies : CallEnd("c1", reply)
    \/ \E w \in Wrappers, configs \in HandleLists, now \in Clock :
          QueryInfo("c1", w, configs, now)
    \/ \E w \in Wrappers, h \in Heights, configs \in HandleLists, now \in Clock :
          QueryBlock("c1", w, h, configs, now)
    \/ \E reply \in QueryReplies : QueryEnd("c1", reply)
    \/ \E w \in Wrappers, configs \in HandleLists : InitPhylum("c1", w, configs, Epoch)
    \/ Return("c1")

Spec == Init /\ [][Next]_vars

\* ------------------------------------------------------------- SpecConc
\* two callers whose Calls on the context-scoped wrapper interleave at the
\* backend's replies
ConcConfigs ==
    { <<"WithContext", "ctxA">>,
      <<"WithContext", "ctxB">>,
      <<"WithDependentTxID", UserTx>> }

ConcLists == SeqsUpTo(ConcConfigs, MaxOpts)

NextConc ==
    \/ \E c \in Chains, configs \in ConcLists :
          CallBegin(c, "ctx", configs, Epoch)
    \/ \E c \in Chains : \E reply \in CallReplies : CallEnd(c, reply)
    \/ \E c \in Chains : Return(c)

SpecConc == Init /\ [][NextConc]_vars

\* ------------------------------------------------------------- SpecOptions
\* Configs applied one after another to the draft of FlattenOptions
AllConfigs ==
    { <<"WithContext", "ctxA">>,
      <<"WithLog", "logger">>,
      <<"WithLogField", "field", "value">>,
      <<"WithHeader", "h1", "v1">>,
      <<"WithHeader", "h1", "v2">>,
      <<"WithHeader", "h2", "v1">>,
      <<"WithEndpoint", "endpoint">>,
      <<"WithID", "id">>,
      <<"WithParams", "ping1">>,
      <<"WithParams", ParamsChan>>,
      <<"WithTransientData", "t1", "bytes">>,
      <<"WithTransientDataMap", [x \in {"t1", "t2"} |-> "other"]>>,
      <<"WithResponse", "target">>,
      <<"WithAuthToken", "token">>,
      <<"WithTimestampGenerator", "2000-01-03T00:00:00-08:00">>,
      <<"WithMSPFilter", <<"msp1">>>>,
      <<"WithMSPFilter", <<"msp2">>>>,
      <<"WithMinEndorsers", 1>>,
      <<"WithCreator", "creator">>,
      <<"WithDependentTxID", UserTx>>,
      <<"WithDependentTxID", "">>,
      <<"WithConditionalDependentTxID", "tx-1">>,
      <<"WithConditionalDependentTxID", "">>,
      <<"WithDisableWritePolling", TRUE>>,
      <<"WithDisableWritePolling", FALSE>>,
      <<"WithCCFetchURLDowngrade", TRUE>>,
      <<"WithCCFetchURLProxy", "proxy">> }

\* config(opt) in the loop of FlattenOptions
ApplyConfig(m) ==
    /\ Len(applied) < MaxApplied
    /\ applied' = Append(applied, m)
    /\ prevOpt' = opt
    /\ opt' = Config(m, opt)
    /\ UNCHANGED nonOptVars

NextOptions == \E m \in AllConfigs : ApplyConfig(m)

SpecOptions == Init /\ [][NextOptions]_vars

\* ------------------------------------------------------------- SpecShared
\* mutable-state wrappers made independently on one instance handle, and
\* two callers that use them without serialization: a Call reads
\* siwc.dependent for the test and again for the option, waits for
\* Substrate.Call, and writes siwc.dependent after the reply
SharedLists ==
    { <<>>,
      <<<<"WithDisableWritePolling", TRUE>>>>,
      <<<<"WithDependentTxID", UserTx>>>> }

\* the wrappers each caller holds: c1 made w1 and passed it to c2, which
\* also made w2
InstancesOf(c) == IF c = "c1" THEN {"w1"} ELSE Instances

\* a plausible slip: the chain state kept in one place for all wrappers
Dependent_Global(i) == siwc["w1"].dependent

\* siwc.dependent read through wrapper i
Dependent(i) == siwc[i].dependent

\* NewSubstrateInstanceWrapperCoherent(siwc) for wrapper i on the handle
NewSubstrateInstanceWrapperCoherent(i) ==
    /\ siwc[i].underlying = "nil"
    /\ siwc' = [siwc EXCEPT ![i] = [underlying |-> "rpc", dependent |-> ""]]
    /\ UNCHANGED <<issued, lastDone, overlapped, chainVars, optVars, batchVars,
                   flatVars, nestVars, rpcVars, lateVars>>

\* Call on wrapper i: configs2 := configs and the test of siwc.dependent
SharedCallTest(c, i, configs) ==
    /\ pc[c] = "idle"
    /\ siwc[i].underlying # "nil"
    /\ pc' = [pc EXCEPT ![c] = IF Dependent(i) # "" THEN "append" ELSE "send"]
    /\ call' = [call EXCEPT ![c] =
                   [op |-> "Call", wrapper |-> "coh", inst |-> i,
                    configs |-> configs, configs2 |-> configs]]
    /\ overlapped' = [overlapped EXCEPT ![i] =
                         @ \/ \E d \in Chains \ {c} :
                                 pc[d] # "idle" /\ call[d].inst = i]
    /\ UNCHANGED <<dependent, slot, nextTx, result, lastRet, returned,
                   optVars, batchVars, siwc, issued, lastDone,
                   flatVars, nestVars, rpcVars, lateVars>>

\* configs2 = append(configs2, WithConditionalDependentTxID(siwc.dependent))
SharedCallAppend(c) ==
    /\ pc[c] = "append"
    /\ pc' = [pc EXCEPT ![c] = "send"]
    /\ call' = [call EXCEPT ![c].configs2 =
                   Append(@, <<"WithConditionalDependentTxID",
                               Dependent(call[c].inst)>>)]
    /\ UNCHANGED <<dependent, slot, nextTx, result, lastRet, returned,
                   optVars, instVars, batchVars,
                   flatVars, nestVars, rpcVars, lateVars>>

\* siwc.underlying.Call(method, configs2...) up to Substrate.Call
SharedCallSend(c) ==
    /\ pc[c] = "send"
    /\ LET fl == FlattenOptions(call[c].configs2, Epoch)
       IN  call' = [call EXCEPT ![c] =
                      [inst |-> call[c].inst]
                      @@ Request("Call", "coh", call[c].configs, Epoch, fl)]
    /\ pc' = [pc EXCEPT ![c] = "waiting"]
    /\ UNCHANGED <<dependent, slot, nextTx, result, lastRet, returned,
                   optVars, instVars, batchVars,
                   flatVars, nestVars, rpcVars, lateVars>>

\* the replies of Substrate.Call, one kind of failure among them
SharedReplies == {r \in CallReplies : r.err # "RPC failure"}

\* resp, err := siwc.underlying.Call(...): the reply of Substrate.Call
SharedCallReply(c, reply) ==
    /\ pc[c] = "waiting"
    /\ reply \in SharedReplies
    /\ pc' = [pc EXCEPT ![c] = "replied"]
    /\ result' = [result EXCEPT ![c] =
                     Returned("Call", "coh", "none", reply.err, reply.txid)]
    /\ nextTx' = IF reply.err = "" /\ reply.txid # "" THEN nextTx + 1 ELSE nextTx
    /\ issued' = IF reply.err = "" /\ reply.txid # ""
                 THEN issued \cup {[tx |-> reply.txid, chain |-> c,
                                    inst |-> call[c].inst]}
                 ELSE issued
    /\ lastDone' = IF reply.err = ""
                   THEN [lastDone EXCEPT ![call[c].inst] = reply.txid]
                   ELSE lastDone
    /\ UNCHANGED <<dependent, slot, call, lastRet, returned, siwc, overlapped,
                   optVars, batchVars,
                   flatVars, nestVars, rpcVars, lateVars>>

\* if err != nil { return nil, err }; siwc.dependent = resp.TransactionID;
\* the Call returns and the caller is free again
SharedCallStore(c) ==
    /\ pc[c] = "replied"
    /\ siwc' = [siwc EXCEPT ![call[c].inst].dependent =
                   CoherentReturn(@, result[c].err, result[c].txid)]
    /\ pc' = [pc EXCEPT ![c] = "idle"]
    /\ call' = [call EXCEPT ![c] = NoCall]
    /\ result' = [result EXCEPT ![c] = NoResult]
    /\ UNCHANGED <<dependent, slot, nextTx, lastRet, returned,
                   issued, lastDone, overlapped, optVars, batchVars,
                   flatVars, nestVars, rpcVars, lateVars>>

NextShared ==
    \/ \E i \in Instances : NewSubstrateInstanceWrapperCoherent(i)
    \/ \E c \in Chains, configs \in SharedLists : \E i \in InstancesOf(c) :
          SharedCallTest(c, i, configs)
    \/ \E c \in Chains : SharedCallAppend(c)
    \/ \E c \in Chains : SharedCallSend(c)
    \/ \E c \in Chains : \E reply \in SharedReplies : SharedCallReply(c, reply)
    \/ \E c \in Chains : SharedCallStore(c)

SpecShared == Init /\ [][NextShared]_vars

\* ------------------------------------------------------------- SpecAlias
\* two callers pass the same option list to Call on the mutable-state
\* wrappers; the list is a slice of an array that has room for one more
\* Config behind it ("roomy") or has none ("exact")
ExtraOpts == <<<<"WithDisableWritePolling", TRUE>>>>

Rooms == {"roomy", "exact"}

\* append(configs2, config): with room behind the slice the Config is
\* written to the array the slice of the caller shares, without room the
\* elements are copied to a new array first
GoAppend(room, cell, config, c) ==
    IF room = "roomy" THEN [config |-> config, by |-> c] ELSE cell

\* the elements the slice configs2 of c holds when they are read
Elements(c) ==
    IF ~call[c].appended THEN call[c].configs
    ELSE IF call[c].room = "roomy" THEN Append(call[c].configs, backing.config)
    ELSE Append(call[c].configs, call[c].config)

\* Call on wrapper i with the list: configs2 := configs and the test of
\* siwc.dependent
AliasCallTest(c, i, room) ==
    /\ pc[c] = "idle"
    /\ siwc[i].underlying # "nil"
    /\ pc' = [pc EXCEPT ![c] = IF Dependent(i) # "" THEN "append" ELSE "send"]
    /\ call' = [call EXCEPT ![c] =
                   [op |-> "Call", wrapper |-> "coh", inst |-> i,
                    configs |-> ExtraOpts, room |-> room,
                    appended |-> FALSE, config |-> <<"nil", "">>]]
    /\ UNCHANGED <<dependent, slot, nextTx, result, lastRet, returned,
                   optVars, instVars, batchVars, flatVars, nestVars, rpcVars,
                   lateVars>>

\* configs2 = append(configs2, WithConditionalDependentTxID(siwc.dependent))
AliasCallAppend(c) ==
    /\ pc[c] = "append"
    /\ pc' = [pc EXCEPT ![c] = "send"]
    /\ LET config == <<"WithConditionalDependentTxID", Dependent(call[c].inst)>>
       IN  /\ call' = [call EXCEPT ![c].appended = TRUE, ![c].config = config]
           /\ backing' = GoAppend(call[c].room, backing, config, c)
    /\ UNCHANGED <<dependent, slot, nextTx, result, lastRet, returned,
                   optVars, instVars, batchVars, flatVars, nestVars, rpcVars,
                   connVars, treeVars>>

\* siwc.underlying.Call(method, configs2...) up to Substrate.Call: the
\* instance handle reads the elements of configs2
AliasCallSend(c) ==
    /\ pc[c] = "send"
    /\ LET fl == FlattenOptions(Elements(c), Epoch)
       IN  call' = [call EXCEPT ![c] =
                      [inst |-> call[c].inst, room |-> call[c].room,
                       appended |-> call[c].appended, config |-> call[c].config]
                      @@ Request("Call", "coh", call[c].configs, Epoch, fl)]
    /\ pc' = [pc EXCEPT ![c] = "waiting"]
    /\ UNCHANGED <<dependent, slot, nextTx, result, lastRet, returned,
                   optVars, instVars, batchVars, flatVars, nestVars, rpcVars,
                   lateVars>>

NextAlias ==
    \/ \E i \in Instances : NewSubstrateInstanceWrapperCoherent(i)
    \/ \E c \in Chains, room \in Rooms : \E i \in InstancesOf(c) :
          AliasCallTest(c, i, room)
    \/ \E c \in Chains : AliasCallAppend(c)
    \/ \E c \in Chains : AliasCallSend(c)
    \/ \E c \in Chains : \E reply \in SharedReplies : SharedCallReply(c, reply)
    \/ \E c \in Chains : SharedCallStore(c)

SpecAlias == Init /\ [][NextAlias]_vars

\* ------------------------------------------------------------- SpecBatch
\* a plausible slip: the later registration replaces the earlier one
RegisterQueue_Replace(reg, q, interval, h) ==
    [reg EXCEPT ![q] = [handler |-> h, interval |-> interval]]

\* the registrations after Register(q, interval, h)
RegisterQueue(reg, q, interval, h) ==
    IF reg[q].handler # "none" THEN reg
    ELSE [reg EXCEPT ![q] = [handler |-> h, interval |-> interval]]

\* driver.Register(ctx, q, interval, handler, opts...)
Register(q, interval, h) ==
    /\ AllIdle
    /\ registry' = RegisterQueue(registry, q, interval, h)
    /\ registered' = [queue    |-> q,
                      handler  |-> h,
                      interval |-> interval,
                      err      |-> IF registry[q].handler # "none"
                                   THEN "ConfigurationError" ELSE ""]
    /\ tick' = [t \in Tickers |-> NoPass]
    /\ UNCHANGED <<tsString, pending, nextReq, recent, failures, hist,
                   nonBatchVars>>

\* Call("schedule_request", q, message, when): the phylum persists an entry
Schedule(q, message, when) ==
    /\ AllIdle
    /\ nextReq < MaxEntries
    /\ nextReq' = nextReq + 1
    /\ pending' = Append(pending, [batchName     |-> q,
                                   requestID     |-> nextReq + 1,
                                   scheduledTime |-> when,
                                   payload       |-> message])
    /\ registered' = NoRegister
    /\ tick' = [t \in Tickers |-> NoPass]
    /\ UNCHANGED <<registry, tsString, recent, failures, hist, nonBatchVars>>

\* tsAssign: the timestamp source moves on
AdvanceClock ==
    /\ AllIdle
    /\ tsString < MaxTime
    /\ tsString' = tsString + 1
    /\ registered' = NoRegister
    /\ tick' = [t \in Tickers |-> NoPass]
    /\ UNCHANGED <<registry, pending, nextReq, recent, failures, hist,
                   nonBatchVars>>

\* ticker.Tick(ctx) for the handler registered for q: the pass begins
Tick(t, q) ==
    /\ tick[t].phase = "Idle"
    /\ registry[q].handler # "none"
    /\ tick' = [tick EXCEPT ![t] = [NoPass EXCEPT !.phase = "Fetching",
                                                  !.queue = q]]
    /\ UNCHANGED <<registry, registered, tsString, pending, nextReq, recent,
                   failures, hist, nonBatchVars>>

\* a plausible slip: the pass over, the ticker is left in a phase of its
\* own and not in Idle
NextPhase_Done(due, i) == IF i > Len(due) THEN "Done" ELSE "Dispatching"

\* the phase after entry i of due
NextPhase(due, i) == IF i > Len(due) THEN "Idle" ELSE "Dispatching"

\* a plausible slip: the entries fetched whatever their time
FetchDue_All(entries, q, now) == SelectDue(entries, q, MaxTime + 1)

\* the entries the backend returns to a Tick of q at now
FetchDue(entries, q, now) == SelectDue(entries, q, now)

\* a plausible slip: the pass goes on after a failed fetch, with the
\* entries it believes due
Fetch_GoOn(t, ok) ==
    /\ tick[t].phase = "Fetching"
    /\ ok \/ failures < MaxFailures
    /\ failures' = IF ok THEN failures ELSE failures + 1
    /\ LET due == FetchDue(pending, tick[t].queue, tsString)
       IN  tick' = [tick EXCEPT ![t].now = tsString,
                                ![t].fetched = IF ok THEN "ok" ELSE "failed",
                                ![t].due = due,
                                ![t].i = 1,
                                ![t].phase = NextPhase(due, 1)]
    /\ UNCHANGED <<registry, registered, tsString, pending, nextReq, recent,
                   hist, nonBatchVars>>

\* the Call that fetches the due entries, at the time of the timestamp
\* source; if it fails the pass is over
Fetch(t, ok) ==
    /\ tick[t].phase = "Fetching"
    /\ IF ok
       THEN /\ LET due == FetchDue(pending, tick[t].queue, tsString)
               IN  /\ tick' = [tick EXCEPT ![t].now = tsString,
                                           ![t].fetched = "ok",
                                           ![t].due = due,
                                           ![t].i = 1,
                                           ![t].phase = NextPhase(due, 1)]
                   /\ hist' = [id \in DOMAIN hist |->
                         IF \E k \in 1..Len(pending) :
                               /\ pending[k].requestID = id
                               /\ pending[k].batchName = tick[t].queue
                               /\ pending[k].scheduledTime > tsString
                         THEN [hist[id] EXCEPT !.early = TRUE]
                         ELSE IF /\ \E k \in 1..Len(due) : due[k].requestID = id
                                 /\ \E u \in Tickers \ {t} :
                                       /\ tick[u].phase # "Idle"
                                       /\ \E k \in 1..Len(tick[u].due) :
                                             tick[u].due[k].requestID = id
                         THEN [hist[id] EXCEPT !.raced = TRUE]
                         ELSE hist[id]]
            /\ UNCHANGED failures
       ELSE /\ failures < MaxFailures
            /\ failures' = failures + 1
            /\ tick' = [tick EXCEPT ![t].now = tsString,
                                    ![t].fetched = "failed",
                                    ![t].phase = "Idle"]
            /\ UNCHANGED hist
    /\ UNCHANGED <<registry, registered, tsString, pending, nextReq, recent,
                   nonBatchVars>>

\* a plausible slip: a handler error ends the pass
Dispatch_StopOnError(t) ==
    /\ tick[t].phase = "Dispatching"
    /\ LET e == tick[t].due[tick[t].i]
           out == Handler(registry[tick[t].queue].handler, e.payload)
       IN  /\ tick' = [tick EXCEPT ![t].outcome = out,
                                   ![t].handled = Append(@, e.requestID),
                                   ![t].phase = IF out.err # "" THEN "Idle"
                                                ELSE "Reporting"]
           /\ hist' = [hist EXCEPT ![e.requestID].dispatched = @ + 1,
                                   ![e.requestID].bad = (out.err # "")]
    /\ UNCHANGED <<registry, registered, tsString, pending, nextReq, recent,
                   failures, nonBatchVars>>

\* handler(queueName, requestID, payload) for the next due entry
Dispatch(t) ==
    /\ tick[t].phase = "Dispatching"
    /\ LET e == tick[t].due[tick[t].i]
           out == Handler(registry[tick[t].queue].handler, e.payload)
       IN  /\ tick' = [tick EXCEPT ![t].outcome = out,
                                   ![t].handled = Append(@, e.requestID),
                                   ![t].phase = "Reporting"]
           /\ hist' = [hist EXCEPT ![e.requestID].dispatched = @ + 1,
                                   ![e.requestID].bad = (out.err # "")]
    /\ UNCHANGED <<registry, registered, tsString, pending, nextReq, recent,
                   failures, nonBatchVars>>

\* a plausible slip: an entry whose follow-up Call failed is given to the
\* handler again in the same pass
Report_Retry(t, landed) ==
    /\ tick[t].phase = "Reporting"
    /\ LET e == tick[t].due[tick[t].i]
           out == tick[t].outcome
       IN  /\ tick' = [tick EXCEPT
                         ![t].reports = Append(@, [requestID |-> e.requestID,
                                                   rep |-> out.reply,
                                                   bad |-> out.err]),
                         ![t].i = IF landed THEN @ + 1 ELSE @,
                         ![t].outcome = "none",
                         ![t].phase = IF landed
                                      THEN NextPhase(tick[t].due, tick[t].i + 1)
                                      ELSE "Dispatching"]
           /\ IF landed
              THEN /\ pending' = Without(pending, e.requestID)
                   /\ recent' = PhylumHandler(out.reply, out.err)
                   /\ hist' = [hist EXCEPT ![e.requestID].landed = @ + 1]
                   /\ UNCHANGED failures
              ELSE /\ failures < MaxFailures
                   /\ failures' = failures + 1
                   /\ hist' = [hist EXCEPT ![e.requestID].lost = TRUE]
                   /\ UNCHANGED <<pending, recent>>
    /\ UNCHANGED <<registry, registered, tsString, nextReq, nonBatchVars>>

\* the follow-up Call for the entry just handled: if it lands, the phylum
\* records the result and the entry is consumed
Report(t, landed) ==
    /\ tick[t].phase = "Reporting"
    /\ LET e == tick[t].due[tick[t].i]
           out == tick[t].outcome
       IN  /\ tick' = [tick EXCEPT
                         ![t].reports = Append(@, [requestID |-> e.requestID,
                                                   rep |-> out.reply,
                                                   bad |-> out.err]),
                         ![t].i = @ + 1,
                         ![t].outcome = "none",
                         ![t].phase = NextPhase(tick[t].due, tick[t].i + 1)]
           /\ IF landed
              THEN /\ pending' = Without(pending, e.requestID)
                   /\ recent' = PhylumHandler(out.reply, out.err)
                   /\ hist' = [hist EXCEPT ![e.requestID].landed = @ + 1]
                   /\ UNCHANGED failures
              ELSE /\ failures < MaxFailures
                   /\ failures' = failures + 1
                   /\ hist' = [hist EXCEPT ![e.requestID].lost = TRUE]
                   /\ UNCHANGED <<pending, recent>>
    /\ UNCHANGED <<registry, registered, tsString, nextReq, nonBatchVars>>

\* the caller of Test001: it registers its handler for test_batch,
\* schedules, moves the clock and runs Tick passes, one at a time
NextBatch ==
    \/ Register("test_batch", "1h", "Test001")
    \/ \E message \in Messages, when \in Times :
          Schedule("test_batch", message, when)
    \/ Schedule("init_batch", InitMessage, tsString)
    \/ AdvanceClock
    \/ Tick("t1", "test_batch")
    \/ \E ok \in BOOLEAN : Fetch("t1", ok)
    \/ Dispatch("t1")
    \/ \E landed \in BOOLEAN : Report("t1", landed)

SpecBatch == Init /\ [][NextBatch]_vars

\* a caller that registers the handler of Test001, schedules entries that
\* are due at once or later, and runs Tick passes
NextBatchLive ==
    \/ Register("test_batch", "1h", "Test001")
    \/ \E message \in Messages, when \in {tsString, tsString + 1} :
          Schedule("test_batch", message, when)
    \/ Tick("t1", "test_batch")
    \/ \E ok \in BOOLEAN : Fetch("t1", ok)
    \/ Dispatch("t1")
    \/ \E landed \in BOOLEAN : Report("t1", landed)

\* the caller of Test001 when the Calls of a pass and the handler return:
\* Tick runs on the caller's thread, so a pass that has begun goes on
SpecBatchLive ==
    /\ Init
    /\ [][NextBatchLive]_vars
    /\ WF_vars(\E ok \in BOOLEAN : Fetch("t1", ok))
    /\ WF_vars(Dispatch("t1"))
    /\ WF_vars(\E landed \in BOOLEAN : Report("t1", landed))

\* ------------------------------------------------------------- SpecRegister
\* a caller that registers any handler for any queue, more than once
NextRegister ==
    \/ \E q \in QueueNames, interval \in Intervals, h \in Handlers :
          Register(q, interval, h)
    \/ Schedule("test_batch", "ping1", tsString)
    \/ \E q \in QueueNames : Tick("t1", q)
    \/ \E ok \in BOOLEAN : Fetch("t1", ok)
    \/ Dispatch("t1")
    \/ \E landed \in BOOLEAN : Report("t1", landed)

SpecRegister == Init /\ [][NextRegister]_vars

\* ------------------------------------------------------------ SpecBatchConc
\* two callers that run Tick on test_batch without serializing their passes
NextBatchConc ==
    \/ Register("test_batch", "1h", "Test001")
    \/ \E message \in Messages : Schedule("test_batch", message, tsString)
    \/ \E t \in Tickers : Tick(t, "test_batch")
    \/ \E t \in Tickers, ok \in BOOLEAN : Fetch(t, ok)
    \/ \E t \in Tickers : Dispatch(t)
    \/ \E t \in Tickers, landed \in BOOLEAN : Report(t, landed)

SpecBatchConc == Init /\ [][NextBatchConc]_vars

\* ------------------------------------------------------------- SpecFlatten
\* the Configs of the lists the Flatten functions are run on
FlattenConfigs ==
    { <<"WithContext", "ctxA">>,
      <<"WithContext", NilCtx>>,
      <<"WithParams", ParamsChan>>,
      <<"WithTimestampGenerator", "2000-01-03T00:00:00-08:00">>,
      <<"WithHeader", "h1", "v1">> }

FlattenLists == SeqsUpTo(FlattenConfigs, MaxOpts)

\* FlattenOptions(configs...) and FlattenContext(configs...) run on one
\* list while time.Now() reads now; the second run follows the first
Flatten(k, configs, now) ==
    /\ ~runs[k].done
    /\ k = "second" => runs["first"].done
    /\ runs' = [runs EXCEPT ![k] = [done    |-> TRUE,
                                    configs |-> configs,
                                    now     |-> now,
                                    fo      |-> FlattenOptions(configs, now),
                                    fc      |-> FlattenContext(configs)]]
    /\ UNCHANGED nonFlatVars

NextFlatten ==
    \E k \in RunNames, configs \in FlattenLists, now \in Clock :
        Flatten(k, configs, now)

SpecFlatten == Init /\ [][NextFlatten]_vars

\* ------------------------------------------------------------- SpecNested
\* coherence wrappers made one on another by NewCoherent and
\* NewContextCoherent of a wrapper; the caller uses the last one made
NestedLists ==
    { <<>>,
      <<<<"WithContext", "ctxA">>>>,
      <<<<"WithContext", "ctxB">>>>,
      <<<<"WithDisableWritePolling", TRUE>>>>,
      <<<<"WithParams", ParamsChan>>>>,
      <<<<"WithContext", "ctxA">>, <<"WithDisableWritePolling", TRUE>>>> }

NestedOps == {"Call"} \cup Forwarded

RECURSIVE GetLastTransactionID_Underlying(_)
\* a plausible slip: the context-scoped wrapper asks its underlying
\* wrapper, as it does for every other method
GetLastTransactionID_Underlying(ls) ==
    IF ls = <<>> THEN ""
    ELSE IF Head(ls).kind = "coh" THEN Head(ls).dependent
    ELSE GetLastTransactionID_Underlying(Tail(ls))

\* GetLastTransactionID() of the first of these wrappers, or of the
\* instance handle if there is none
GetLastTransactionID(ls) ==
    IF ls = <<>> THEN ""
    ELSE IF Head(ls).kind = "coh" THEN Head(ls).dependent
    ELSE ""

\* NewCoherent() (kind "coh") or NewContextCoherent() (kind "ctx") of the
\* wrapper the caller holds
NewLayer(kind) ==
    /\ pc["c1"] = "idle"
    /\ Len(layers) < MaxDepth
    /\ layers' = <<[kind |-> kind, dependent |-> "", last |-> "none"]>> \o layers
    /\ UNCHANGED <<chainVars, optVars, instVars, batchVars, flatVars, rpcVars, lateVars>>

RECURSIVE DownConfigs(_, _)
\* the options that reach the instance handle's Call when Call is made on
\* the first of these wrappers: each hands configs2 to its underlying one
DownConfigs(ls, configs) ==
    IF ls = <<>> THEN configs
    ELSE DownConfigs(Tail(ls),
                     IF Head(ls).kind = "coh"
                     THEN CoherentConfigs2(Head(ls).dependent, configs)
                     ELSE ContextCoherentConfigs2(configs))

\* a plausible slip: a wrapper puts its name before the error
LayerError_Wrapped(kind, err) == IF err # "" THEN kind \o ": " \o err ELSE err

\* the error a wrapper returns when its underlying wrapper returned err
LayerError(kind, err) == err

RECURSIVE UpError(_, _)
\* the error the first of these wrappers returns when the instance handle
\* returned err
UpError(ls, err) ==
    IF ls = <<>> THEN err
    ELSE LayerError(Head(ls).kind, UpError(Tail(ls), err))

\* an operation on the wrapper the caller holds, down to the instance
\* handle, which flattens the options and returns an error of
\* FlattenOptions at once
NestedBegin(op, configs) ==
    /\ pc["c1"] = "idle"
    /\ LET down == IF op = "Call" THEN DownConfigs(layers, configs) ELSE configs
           fl   == FlattenOptions(down, Epoch)
       IN  IF fl.err # ""
           THEN /\ pc' = [pc EXCEPT !["c1"] = "returned"]
                /\ result' = [result EXCEPT !["c1"] =
                       [handle |-> fl.err] @@
                       Returned(op, "nested", CarrierOf("ctx", configs),
                                UpError(layers, fl.err), "")]
                /\ UNCHANGED call
           ELSE /\ pc' = [pc EXCEPT !["c1"] = "waiting"]
                /\ call' = [call EXCEPT !["c1"] =
                       [op |-> op, wrapper |-> "nested",
                        carrier |-> CarrierOf("ctx", configs),
                        sent |-> [err |-> fl.err, dep |-> fl.fo.DependentTxID]]]
                /\ UNCHANGED result
    /\ UNCHANGED <<dependent, slot, nextTx, lastRet, returned, layers,
                   optVars, instVars, batchVars, flatVars, rpcVars, lateVars>>

\* the reply of the Substrate to the instance handle, and the return
\* through every wrapper: after a Call without error each mutable-state
\* wrapper stores the id, and each context-scoped one writes the slot of
\* the carrier if there is one
NestedEnd(reply) ==
    /\ pc["c1"] = "waiting"
    /\ call["c1"].wrapper = "nested"
    /\ IF call["c1"].op = "Call"
       THEN reply \in CallReplies
       ELSE reply \in {[err |-> e, txid |-> ""] : e \in QueryReplies}
    /\ LET k == call["c1"].carrier
           isCall == call["c1"].op = "Call"
       IN  /\ layers' = [i \in 1..Len(layers) |->
                           IF ~isCall THEN layers[i]
                           ELSE [layers[i] EXCEPT
                                   !.dependent =
                                      IF layers[i].kind = "coh"
                                      THEN CoherentReturn(@, reply.err, reply.txid)
                                      ELSE @,
                                   !.last = IF reply.err = "" THEN reply.txid
                                            ELSE @]]
           /\ slot' = IF isCall /\ \E i \in 1..Len(layers) : layers[i].kind = "ctx"
                      THEN [x \in Carriers |->
                              ContextCoherentReturn(x = k, slot[x], reply.err, reply.txid)]
                      ELSE slot
           /\ result' = [result EXCEPT !["c1"] =
                  [handle |-> reply.err] @@
                  Returned(call["c1"].op, "nested", k,
                           UpError(layers, reply.err), reply.txid)]
    /\ nextTx' = IF reply.err = "" /\ reply.txid # "" THEN nextTx + 1 ELSE nextTx
    /\ pc' = [pc EXCEPT !["c1"] = "returned"]
    /\ call' = [call EXCEPT !["c1"] = NoCall]
    /\ UNCHANGED <<dependent, lastRet, returned,
                   optVars, instVars, batchVars, flatVars, rpcVars, lateVars>>

NextNested ==
    \/ \E kind \in {"coh", "ctx"} : NewLayer(kind)
    \/ \E op \in NestedOps, configs \in NestedLists : NestedBegin(op, configs)
    \/ \E reply \in CallReplies \cup {[err |-> e, txid |-> ""] : e \in QueryReplies} :
          NestedEnd(reply)
    \/ Return("c1")

SpecNested == Init /\ [][NextNested]_vars

\* ------------------------------------------------------------- SpecContext
\* contexts made from context.Background() (context 0) by
\* ContextWithTransactionID and by the context package (WithCancel,
\* WithValue of another key); context n is contexts[n]
RECURSIVE Lookup_Outermost(_, _)
\* a plausible slip: the dependentWrapper of the outermost context that
\* holds one
Lookup_Outermost(cs, n) ==
    IF n = 0 THEN 0
    ELSE IF Lookup_Outermost(cs, cs[n].parent) # 0
         THEN Lookup_Outermost(cs, cs[n].parent)
    ELSE IF cs[n].own THEN n ELSE 0

RECURSIVE Lookup(_, _)
\* ctx.Value(dependentKey): the context whose dependentWrapper context n
\* yields, the nearest one from n towards Background that holds one
\* (0: there is none, ok is false)
Lookup(cs, n) ==
    IF n = 0 THEN 0
    ELSE IF cs[n].own THEN n
    ELSE Lookup(cs, cs[n].parent)

\* GetContextTransactionID(ctx) for context n
GetContextTransactionID(cs, n) ==
    IF Lookup(cs, n) # 0 THEN cs[Lookup(cs, n)].dependent ELSE ""

RECURSIVE Made(_, _)
\* history: the context returned by ContextWithTransactionID that context
\* n is or was derived from last (0: none)
Made(cs, n) ==
    IF n = 0 THEN 0
    ELSE IF cs[n].own THEN n
    ELSE Made(cs, cs[n].parent)

\* ContextWithTransactionID(ctx) for context p
ContextWithTransactionID(p) ==
    /\ Len(contexts) < MaxContexts
    /\ contexts' = Append(contexts, [parent |-> p, own |-> TRUE,
                                     dependent |-> "", last |-> "none"])
    /\ UNCHANGED <<chainVars, optVars, instVars, batchVars, flatVars, nestVars,
                   rpcVars, aliasVars, connVars>>

\* a context derived from context p without a dependentWrapper of its own
DeriveContext(p) ==
    /\ Len(contexts) < MaxContexts
    /\ contexts' = Append(contexts, [parent |-> p, own |-> FALSE,
                                     dependent |-> "", last |-> "none"])
    /\ UNCHANGED <<chainVars, optVars, instVars, batchVars, flatVars, nestVars,
                   rpcVars, aliasVars, connVars>>

\* Call(method, WithContext(ctx)) on the context-scoped wrapper for
\* context n, with the reply of the underlying Call
ContextCall(n, reply) ==
    /\ reply \in CallReplies
    /\ LET k == Lookup(contexts, n)
           m == Made(contexts, n)
       IN  contexts' = [i \in 1..Len(contexts) |->
               [contexts[i] EXCEPT
                  !.dependent = ContextCoherentReturn(i = k, @, reply.err, reply.txid),
                  !.last = IF i = m /\ reply.err = "" THEN reply.txid ELSE @]]
    /\ nextTx' = IF reply.err = "" /\ reply.txid # "" THEN nextTx + 1 ELSE nextTx
    /\ UNCHANGED <<dependent, slot, pc, call, result, lastRet, returned,
                   optVars, instVars, batchVars, flatVars, nestVars,
                   rpcVars, aliasVars, connVars>>

NextContext ==
    \/ \E p \in 0..Len(contexts) : ContextWithTransactionID(p)
    \/ \E p \in 0..Len(contexts) : DeriveContext(p)
    \/ \E n \in 0..Len(contexts) : \E reply \in CallReplies : ContextCall(n, reply)

SpecContext == Init /\ [][NextContext]_vars

\* ------------------------------------------------------------- SpecConnect
\* a program that calls Connect with a closure, one Connect after another
UserErrors == {"", "user error"}

\* conn, err := NewSubstrateConnection(opts...): the backend process is
\* started and the connection made, or the program ends in log.Fatal
ConnectBegin(outcome) ==
    /\ conn.phase \in {"none", "returned"}
    /\ conn.connects < MaxConnects
    /\ conn' = IF outcome = "established"
               THEN [conn EXCEPT !.phase = "user",
                                 !.connects = @ + 1,
                                 !.started = @ + 1,
                                 !.ops = 0,
                                 !.user = "none",
                                 !.ret = "none"]
               ELSE [conn EXCEPT !.phase = "exited",
                                 !.connects = @ + 1,
                                 !.ops = 0,
                                 !.user = "none",
                                 !.ret = "none"]
    /\ UNCHANGED <<chainVars, optVars, instVars, batchVars, flatVars, nestVars,
                   rpcVars, aliasVars, treeVars>>

\* the closure makes an operation on conn.GetSubstrate()
UserOperation ==
    /\ conn.phase = "user"
    /\ conn.ops < MaxOps
    /\ conn' = [conn EXCEPT !.ops = @ + 1]
    /\ UNCHANGED <<chainVars, optVars, instVars, batchVars, flatVars, nestVars,
                   rpcVars, aliasVars, treeVars>>

\* Connect after err = user(conn.GetSubstrate()): the error is returned, or
\* conn.Close() kills the backend process and its nil is returned
ConnectEnd(c, err) ==
    IF err # ""
    THEN [c EXCEPT !.phase = "returned", !.user = err, !.ret = err]
    ELSE [c EXCEPT !.phase = "returned", !.user = err, !.ret = "",
                   !.killed = @ + 1]

\* the closure returns err and Connect returns
UserReturn(err) ==
    /\ conn.phase = "user"
    /\ conn' = ConnectEnd(conn, err)
    /\ UNCHANGED <<chainVars, optVars, instVars, batchVars, flatVars, nestVars,
                   rpcVars, aliasVars, treeVars>>

NextConnect ==
    \/ \E outcome \in {"established", "fatal"} : ConnectBegin(outcome)
    \/ UserOperation
    \/ \E err \in UserErrors : UserReturn(err)

SpecConnect == Init /\ [][NextConnect]_vars

\* ------------------------------------------------------------- SpecChannel
\* the serviceMethod a method of PluginRPC passes to client.Call
ServiceMethod(op) ==
    IF op = "QueryBlock" THEN "Plugin.QueryInfo" ELSE "Plugin." \o op

\* the method of PluginRPCServer net/rpc dispatches a serviceMethod to
ServerMethod(method) == CHOOSE op \in ChannelOps : "Plugin." \o op = method

\* gob: a struct value decoded into a struct type with these fields; a
\* field the value lacks stays zero, a field the type lacks is dropped
Decode(fields, value) ==
    [f \in fields |-> IF f \in DOMAIN value THEN value[f] ELSE Zero(f)]

\* what the backend implementation returns from a method when it succeeds
ImplResult(op, args) ==
    CASE op \in {"NewRPC", "NewMockFrom"} -> "tag-1"
      [] op = "SnapshotMock" -> "snapshot"
      [] op = "Call"         -> "response"
      [] op = "QueryInfo"    -> "7"
      [] op = "QueryBlock"   -> "block " \o args["Height"]
      [] OTHER               -> ""

\* what the backend implementation may return from a method: a result, an
\* error with the zero value, or an error with a value beside it
ImplOutcomes(op, args) ==
    {[err |-> NilError, res |-> ImplResult(op, args)]}
    \cup {[err |-> e, res |-> Zero(ResultField(op))] : e \in BackendErrors}
    \cup {[err |-> e, res |-> ImplResult(op, args)] : e \in BackendErrors}

\* the outcomes of all methods
AllOutcomes ==
    UNION {UNION {ImplOutcomes(op, args) : args \in ArgsOf(op)} : op \in ChannelOps}

\* PluginRPCServer.newError(err)
newError(err) ==
    [type |-> "*Error", IsTimeoutError |-> err.timeout, Diagnostic |-> ErrorText(err)]

\* a plausible slip: the value the backend returned beside its error is
\* put in the reply too
ServerResp_Both(op, outcome) ==
    [f \in RespFields(op) |->
        IF f = "Err"
        THEN IF outcome.err.type = "nil" THEN NilError ELSE newError(outcome.err)
        ELSE outcome.res]

\* the Resp struct a method of PluginRPCServer has filled when it returns:
\* resp.Err if the backend returned an error, the result field if not
ServerResp(op, outcome) ==
    [f \in RespFields(op) |->
        IF f = "Err"
        THEN IF outcome.err.type = "nil" THEN NilError ELSE newError(outcome.err)
        ELSE IF outcome.err.type = "nil" THEN outcome.res ELSE Zero(f)]

\* a plausible slip: the error of the backend reported as the RPC failure
StubResult_Generic(op, failed, resp) ==
    IF failed \/ resp["Err"].type # "nil"
    THEN [res |-> Zero(ResultField(op)), err |-> errRPC]
    ELSE [res |-> IF ResultField(op) = "none" THEN "" ELSE resp[ResultField(op)],
          err |-> NilError]

\* what a method of PluginRPC returns after client.Call: failed says that
\* client.Call returned an error, resp is the Resp struct it filled
StubResult(op, failed, resp) ==
    IF failed
    THEN [res |-> Zero(ResultField(op)), err |-> errRPC]
    ELSE IF resp["Err"].type # "nil"
    THEN [res |-> Zero(ResultField(op)), err |-> resp["Err"]]
    ELSE [res |-> IF ResultField(op) = "none" THEN "" ELSE resp[ResultField(op)],
          err |-> NilError]

\* PluginRPC.IsTimeoutError(err): the type assertion err.(Error) holds for
\* a value of type Error only
IsTimeoutError(err) ==
    IF err.type = "Error" THEN err.IsTimeoutError ELSE FALSE

\* a method of PluginRPC up to client.Call
Stub(op, args) ==
    /\ wire.phase = "idle"
    /\ wire' = [phase |-> "request", op |-> op, method |-> ServiceMethod(op),
                args |-> args]
    /\ invoked' = <<>>
    /\ got' = NoReturn
    /\ UNCHANGED nonRpcVars

\* the method of PluginRPCServer the request is dispatched to: it calls
\* the backend implementation, fills the Resp struct and returns nil (err)
Serve(outcome) ==
    /\ wire.phase = "request"
    /\ LET op   == ServerMethod(wire.method)
           args == Decode(ArgFields(op), wire.args)
       IN  /\ outcome \in ImplOutcomes(op, args)
           /\ invoked' = Append(invoked, [op |-> op, args |-> args])
           /\ wire' = [phase   |-> "response",
                       op      |-> wire.op,
                       method  |-> wire.method,
                       args    |-> wire.args,
                       backend |-> outcome,
                       err     |-> NilError,
                       resp    |-> ServerResp(op, outcome)]
    /\ UNCHANGED <<got, nonRpcVars>>

\* client.Call has returned nil and the method of PluginRPC returns
StubReturn ==
    /\ wire.phase = "response"
    /\ got' = [op |-> wire.op, args |-> wire.args, transport |-> FALSE,
               backend |-> wire.backend,
               ret |-> StubResult(wire.op, FALSE,
                                  Decode(RespFields(wire.op), wire.resp))]
    /\ wire' = NoExchange
    /\ UNCHANGED <<invoked, nonRpcVars>>

\* client.Call has returned an error: the request did not reach the
\* server, or its response did not reach the client
TransportFailure ==
    /\ wire.phase \in {"request", "response"}
    /\ got' = [op |-> wire.op, args |-> wire.args, transport |-> TRUE,
               backend |-> IF wire.phase = "response" THEN wire.backend
                           ELSE [err |-> NilError, res |-> ""],
               ret |-> StubResult(wire.op, TRUE, EmptyMap)]
    /\ wire' = NoExchange
    /\ UNCHANGED <<invoked, nonRpcVars>>

NextChannel ==
    \/ \E op \in ChannelOps : \E args \in ArgsOf(op) : Stub(op, args)
    \/ \E outcome \in AllOutcomes : Serve(outcome)
    \/ StubReturn
    \/ TransportFailure

SpecChannel == Init /\ [][NextChannel]_vars

\* ------------------------------------------------------------- properties
\* chain c waits for the reply to a Call it made on wrapper w
Waiting(c, w) ==
    pc[c] = "waiting" /\ call[c].op = "Call" /\ call[c].wrapper = w

\* the dependent transaction id that reached Substrate.Call
SentDep(c) == call[c].sent.fo.DependentTxID

\* the options the caller's own list flattens to
Plain(c) == call[c].plain.fo

\* chain c has just got the result of a Call on wrapper w
CallReturns(c, w) ==
    /\ pc[c] # "returned"
    /\ pc'[c] = "returned"
    /\ result'[c].op = "Call"
    /\ result'[c].wrapper = w

\* option lists a next Call may come with
Probes ==
    { <<>>,
      <<<<"WithDisableWritePolling", TRUE>>>>,
      <<<<"WithDependentTxID", UserTx>>>>,
      <<<<"WithContext", "ctxA">>>>,
      <<<<"WithContext", "ctxB">>, <<"WithDependentTxID", UserTx>>>> }

\* C1 as stated: after a successful Call that returned a transaction id,
\* the next Call through the mutable-state wrapper carries that id unless
\* its options explicitly demand independent execution; a Call without any
\* dependency or polling option is such a Call and carries it.
C1_Original ==
    \A c \in Chains :
        ( /\ Waiting(c, "coh")
          /\ lastRet["coh"] \notin {"none", ""}
          /\ ~call[c].explicit )
        => SentDep(c) = lastRet["coh"]

\* C1 as amended: Calls made one after another through the mutable-state
\* wrapper: a Call carries the id the previous successful Call returned
\* when that id is non-empty and the Call's own options disable write
\* polling or set a non-empty dependent id; in every other case it carries
\* the dependency of its own options, so a Call without any dependency or
\* polling option carries none.
C1_CoherentChain ==
    \A c \in Chains :
        (Waiting(c, "coh") /\ lastRet["coh"] # "none")
        => LET t == lastRet["coh"]
               p == Plain(c)
           IN  /\ SentDep(c) =
                    IF t # "" /\ (p.DisableWritePolling \/ p.DependentTxID # "")
                    THEN t ELSE p.DependentTxID
               /\ call[c].bare => SentDep(c) = ""

\* the third Call of a chain carries the id of the second
C1_Witness ==
    \E c \in Chains :
        /\ Waiting(c, "coh")
        /\ lastRet["coh"] = "tx-2"
        /\ SentDep(c) = "tx-2"
        /\ nextTx = 2

\* C2: two chains on distinct carriers through one context-scoped wrapper,
\* their Calls interleaved: no Call is sent with a dependent transaction id
\* that was returned to a Call made with another carrier, and no Call
\* changes the slot of a carrier other than its own.
C2_Isolation ==
    /\ [](\A c \in Chains :
            Waiting(c, "ctx")
            => \A k \in Carriers \ {call[c].carrier} : SentDep(c) \notin returned[k])
    /\ [][\A c \in Chains :
            (pc[c] = "waiting" /\ pc'[c] = "returned")
            => \A k \in Carriers \ {call[c].carrier} : slot'[k] = slot[k]]_vars

\* both chains are in a Call, each carrying the id of its own carrier
C2_Witness ==
    /\ Waiting("c1", "ctx") /\ call["c1"].carrier = "ctxA"
    /\ Waiting("c2", "ctx") /\ call["c2"].carrier = "ctxB"
    /\ SentDep("c1") \in returned["ctxA"]
    /\ SentDep("c2") \in returned["ctxB"]

\* C3 as stated: Calls made one after another with one carrier: a Call is
\* sent with the id the previous successful Call returned, and the first
\* Call on a fresh carrier with no injected dependency.
C3_Original ==
    \A c \in Chains :
        (Waiting(c, "ctx") /\ call[c].carrier # "none")
        => LET t == lastRet[call[c].carrier]
           IN  IF t # "none" THEN SentDep(c) = t
                             ELSE call[c].sent = call[c].plain

\* C3 as amended: Calls made one after another with one carrier: a Call is
\* sent with the id the previous successful Call returned when that id is
\* non-empty; the first Call on a fresh carrier, and a Call after a
\* Response without transaction id, are sent with the caller's options and
\* no injected dependency.
C3_ContextChain ==
    \A c \in Chains :
        (Waiting(c, "ctx") /\ call[c].carrier # "none")
        => LET t == lastRet[call[c].carrier]
           IN  IF t \notin {"none", ""} THEN SentDep(c) = t
                                       ELSE call[c].sent = call[c].plain

\* the third Call with carrier ctxA carries the id of the second
C3_Witness ==
    \E c \in Chains :
        /\ Waiting(c, "ctx")
        /\ call[c].carrier = "ctxA"
        /\ returned["ctxA"] = {"tx-1", "tx-2"}
        /\ lastRet["ctxA"] = "tx-2"
        /\ SentDep(c) = "tx-2"

\* C4: a Call through the mutable-state wrapper that fails, in
\* FlattenOptions or in the underlying Call, leaves lastTransactionID as it
\* was, so the next Call carries the dependency it would have carried.
C4_FailedCallKeepsState ==
    [][\A c \in Chains :
         (CallReturns(c, "coh") /\ result'[c].err # "")
         => /\ dependent' = dependent
            /\ \A configs \in Probes :
                 CoherentConfigs2(dependent', configs) = CoherentConfigs2(dependent, configs)
      ]_vars

\* a Call has failed at the backend after tx-1 was stored
C4_Witness ==
    \E c \in Chains :
        /\ pc[c] = "returned"
        /\ result[c].op = "Call"
        /\ result[c].wrapper = "coh"
        /\ result[c].err = "backend: failed"
        /\ dependent = "tx-1"

\* C5: with a carrier attached, a successful Call through the
\* context-scoped wrapper stores the Response's transaction id in the
\* carrier's slot, and a failed Call leaves every slot as it was.
C5_SlotUpdate ==
    [][\A c \in Chains :
         (CallReturns(c, "ctx") /\ result'[c].carrier # "none")
         => IF result'[c].err = ""
            THEN slot'[result'[c].carrier] = result'[c].txid
            ELSE slot' = slot
      ]_vars

\* the slot of ctxA holds tx-2, which replaced tx-1
C5_Witness ==
    \E c \in Chains :
        /\ pc[c] = "returned"
        /\ result[c].op = "Call"
        /\ result[c].wrapper = "ctx"
        /\ result[c].carrier = "ctxA"
        /\ result[c].txid = "tx-2"
        /\ returned["ctxA"] = {"tx-1", "tx-2"}
        /\ slot["ctxA"] = "tx-2"

\* C6: the mutable-state wrapper changes the options of a Call only by
\* making the stored id its dependency, and only when the caller's options
\* do not ask for synchronous, independent execution (write polling on and
\* no dependent id); a Call that asks for it reaches the handle with
\* exactly the caller's options.
C6_FillGap ==
    \A c \in Chains :
        Waiting(c, "coh")
        => LET p == Plain(c)
               independent == ~p.DisableWritePolling /\ p.DependentTxID = ""
           IN  /\ independent => call[c].sent = call[c].plain
               /\ call[c].sent # call[c].plain
                  => /\ dependent # ""
                     /\ ~independent
                     /\ call[c].sent.fo = [p EXCEPT !.DependentTxID = dependent]

\* a Call that switches write polling on explicitly, made while tx-1 is
\* stored, is sent without dependency
C6_Witness ==
    \E c \in Chains :
        /\ Waiting(c, "coh")
        /\ dependent = "tx-1"
        /\ call[c].explicit
        /\ ~Plain(c).DisableWritePolling
        /\ SentDep(c) = ""

\* C7: WithConditionalDependentTxID(txID) sets the dependent transaction id
\* of the draft to txID exactly when write polling is disabled or a
\* dependent id is already set, and changes nothing else in any case.
C7_Conditional ==
    (applied # <<>> /\ applied[Len(applied)][1] = "WithConditionalDependentTxID")
    => LET txID == applied[Len(applied)][2]
       IN  opt = IF prevOpt.DisableWritePolling \/ prevOpt.DependentTxID # ""
                 THEN [prevOpt EXCEPT !.DependentTxID = txID]
                 ELSE prevOpt

\* the id is set on a draft that has write polling disabled and no id yet
C7_Witness ==
    /\ applied = << <<"WithDisableWritePolling", TRUE>>,
                    <<"WithConditionalDependentTxID", "tx-1">> >>
    /\ prevOpt.DependentTxID = ""
    /\ opt.DependentTxID = "tx-1"

\* C8: whenever the slot of the attached carrier is non-empty, the Call
\* reaches the handle with the slot's value as its dependent transaction
\* id, whatever dependency or polling options the caller passed.
C8_AlwaysOverwrite ==
    \A c \in Chains :
        (Waiting(c, "ctx") /\ call[c].carrier # "none" /\ slot[call[c].carrier] # "")
        => SentDep(c) = slot[call[c].carrier]

\* the caller's own dependency is replaced by the slot's
C8_Witness ==
    \E c \in Chains :
        /\ Waiting(c, "ctx")
        /\ call[c].carrier = "ctxA"
        /\ slot["ctxA"] = "tx-1"
        /\ Plain(c).DependentTxID = UserTx
        /\ SentDep(c) = "tx-1"

\* C9: a Call through the context-scoped wrapper without a carrier (no
\* context, or a context that is no carrier) is issued with exactly the
\* caller's options, is never refused for the missing context, and changes
\* no slot.
C9_NoCarrier ==
    /\ [](\A c \in Chains :
            /\ (Waiting(c, "ctx") /\ call[c].carrier = "none")
               => call[c].sent = call[c].plain
            /\ ( /\ pc[c] = "returned"
                 /\ result[c].op = "Call"
                 /\ result[c].wrapper = "ctx"
                 /\ result[c].carrier = "none" )
               => result[c].err \in
                    {"", "RPC failure", "backend: failed",
                     jsonMarshal(ParamsChan).err})
    /\ [][\A c \in Chains :
            (CallReturns(c, "ctx") /\ result'[c].carrier = "none") => slot' = slot]_vars

\* a Call with a context that is no carrier is on its way while a slot
\* holds an id
C9_Witness ==
    \E c \in Chains :
        /\ Waiting(c, "ctx")
        /\ call[c].carrier = "none"
        /\ slot["ctxA"] = "tx-1"
        /\ SentDep(c) = UserTx

\* chain c takes a step of QueryInfo or QueryBlock
QueryStep(c) ==
    \/ /\ pc[c] = "idle"
       /\ pc'[c] = "waiting"
       /\ call'[c].op \in Queries
    \/ /\ pc[c] = "idle"
       /\ pc'[c] = "returned"
       /\ result'[c].op \in Queries
    \/ /\ pc[c] = "waiting"
       /\ call[c].op \in Queries
       /\ pc'[c] = "returned"

\* C10: QueryInfo and QueryBlock through any wrapper, failing or not, leave
\* lastTransactionID and every slot as they were, and with them the
\* dependency the next Call carries.
C10_ReadsKeepState ==
    [][\A c \in Chains :
         QueryStep(c)
         => /\ dependent' = dependent
            /\ slot' = slot
            /\ \A w \in Wrappers : \A configs \in Probes :
                 Configs2(w, configs)' = Configs2(w, configs)
      ]_vars

\* a QueryBlock has returned its block while both variants hold an id
C10_Witness ==
    \E c \in Chains :
        /\ pc[c] = "returned"
        /\ result[c].op = "QueryBlock"
        /\ result[c].wrapper \in {"coh", "ctx"}
        /\ result[c].err = ""
        /\ dependent = "tx-1"
        /\ slot["ctxA"] = "tx-2"

\* chain c waits for the reply to a Call it made through wrapper i
WaitingOn(c, i) == pc[c] = "waiting" /\ call[c].inst = i

C12_SerializedOnly ==
    \A i \in Instances :
        ( /\ ~overlapped[i]
          /\ lastDone[i] # "none"
          /\ \A c \in Chains : pc[c] = "idle" \/ call[c].inst # i )
        => siwc[i].dependent = lastDone[i]

\* the wrapper holds tx-1 although tx-2 completed last, and the Call of c2
\* carries tx-1, which was returned to c1
C12_Witness ==
    /\ overlapped["w1"]
    /\ lastDone["w1"] = "tx-2"
    /\ siwc["w1"].dependent = "tx-1"
    /\ pc["c1"] = "idle"
    /\ WaitingOn("c2", "w1")
    /\ SentDep("c2") = "tx-1"
    /\ [tx |-> "tx-1", chain |-> "c1", inst |-> "w1"] \in issued
    /\ [tx |-> "tx-2", chain |-> "c2", inst |-> "w1"] \in issued

\* ticker t has ended a Tick pass and its caller has done nothing since
PassEnded(t) == tick[t].phase = "Idle" /\ tick[t].fetched # "none"

\* how often x occurs in seq
Occurrences(seq, x) == Cardinality({k \in 1..Len(seq) : seq[k] = x})

\* the request ids of the entries the backend holds
PendingIDs == {pending[k].requestID : k \in 1..Len(pending)}

\* every entry the pass of t handed to the handler was due at its now, and
\* no entry still ahead of the timestamp source was ever handed to one
NeverEarly ==
    /\ \A t \in Tickers : \A k \in 1..Len(tick[t].handled) :
          /\ tick[t].due[k].requestID = tick[t].handled[k]
          /\ tick[t].due[k].scheduledTime <= tick[t].now
    /\ \A k \in 1..Len(pending) :
          pending[k].scheduledTime > tsString
          => hist[pending[k].requestID].dispatched = 0

\* an entry leaves the queue only by a follow-up that landed
StaysQueued ==
    \A id \in 1..nextReq : id \notin PendingIDs => hist[id].landed >= 1

\* the pass of t gave every entry of its queue due at its now to the
\* handler, once
DispatchedOnce(t) ==
    /\ \A k \in 1..Len(pending) :
          ( /\ pending[k].batchName = tick[t].queue
            /\ pending[k].scheduledTime <= tick[t].now )
          => Occurrences(tick[t].handled, pending[k].requestID) = 1
    /\ \A id \in 1..nextReq : Occurrences(tick[t].handled, id) <= 1

\* C13 as stated: an entry scheduled for T is never dispatched by a Tick
\* whose now is before T, stays in the queue until then, and is dispatched
\* exactly once by the first Tick whose now is at or after T.
C13_Original ==
    /\ NeverEarly
    /\ StaysQueued
    /\ \A t \in Tickers : PassEnded(t) => DispatchedOnce(t)

\* C13 as amended: an entry scheduled for T is never dispatched by a Tick
\* whose now is before T, stays in the queue until then, and is dispatched
\* exactly once by the first Tick whose now is at or after T and whose
\* fetch of the due entries succeeds.
C13_DueTime ==
    /\ NeverEarly
    /\ StaysQueued
    /\ \A t \in Tickers :
          (PassEnded(t) /\ tick[t].fetched = "ok") => DispatchedOnce(t)

\* Scenario 3: a pass before T has left the entry alone, the pass at T
\* has dispatched it once
C13_Witness ==
    /\ PassEnded("t1")
    /\ tick["t1"].now = 2
    /\ tick["t1"].handled = <<1>>
    /\ hist[1].early
    /\ hist[1].dispatched = 1
    /\ hist[1].landed = 1
    /\ recent = "pong1"

\* C14: a pass in which the handler returned an error for an entry has
\* still given every entry that was due to the handler; and an entry whose
\* failure report has landed is not given to the handler again.
C14_HandlerFailure ==
    /\ [](\A t \in Tickers :
            ( /\ PassEnded(t)
              /\ \E k \in 1..Len(tick[t].handled) : hist[tick[t].handled[k]].bad )
            => /\ Len(tick[t].handled) = Len(tick[t].due)
               /\ \A k \in 1..Len(tick[t].due) :
                     tick[t].handled[k] = tick[t].due[k].requestID)
    /\ [][\A id \in 1..MaxEntries :
            (hist[id].bad /\ hist[id].landed >= 1)
            => hist'[id].dispatched = hist[id].dispatched]_vars

\* entry 1 failed in the first pass and its report landed, entry 2 was
\* handled after it and its report was lost: the second pass has handled
\* entry 2 again and not entry 1
C14_Witness ==
    /\ PassEnded("t1")
    /\ tick["t1"].handled = <<2>>
    /\ hist[1].bad /\ hist[1].landed = 1 /\ hist[1].dispatched = 1
    /\ hist[2].lost /\ hist[2].dispatched = 2
    /\ 1 \notin PendingIDs

\* what the backend records for a follow-up Call: the success payload, or
\* "error: " and the description
Expected(rp) == IF rp.bad # "" THEN "error: " \o rp.bad ELSE rp.rep

\* the follow-up Calls of the pass of t are those of its handler outcomes,
\* one each, with the payload on success and the error description on
\* failure
Reported(t) ==
    /\ Len(tick[t].reports) =
          Len(tick[t].handled) - (IF tick[t].phase = "Reporting" THEN 1 ELSE 0)
    /\ \A k \in 1..Len(tick[t].reports) :
          LET rp == tick[t].reports[k]
              out == Handler(registry[tick[t].queue].handler, tick[t].due[k].payload)
          IN  /\ rp.requestID = tick[t].handled[k]
              /\ rp.rep = out.reply
              /\ rp.bad = out.err
              /\ (rp.rep = "") # (rp.bad = "")

\* C15 as stated: every handler outcome of a pass yields exactly one
\* follow-up Call for its entry, with the result payload or the failure
\* marker and description; that follow-up marks the entry consumed, and
\* the backend's last result is then the payload or "error: <description>".
C15_Original ==
    \A t \in Tickers :
        /\ Reported(t)
        /\ \A k \in 1..Len(tick[t].reports) :
              tick[t].reports[k].requestID \notin PendingIDs
        /\ tick[t].reports # <<>>
           => recent = Expected(tick[t].reports[Len(tick[t].reports)])

\* C15 as amended: every handler outcome of a pass yields exactly one
\* follow-up Call for its entry, with the result payload or the failure
\* marker and description; a follow-up that lands marks the entry consumed
\* and makes the backend's last result the payload or
\* "error: <description>", and one that does not land changes neither.
C15_Reporting ==
    /\ [](\A t \in Tickers : Reported(t))
    /\ [][\A t \in Tickers :
            Len(tick'[t].reports) = Len(tick[t].reports) + 1
            => LET rp == tick'[t].reports[Len(tick'[t].reports)]
               IN  IF hist'[rp.requestID].landed > hist[rp.requestID].landed
                   THEN /\ rp.requestID \notin {pending'[k].requestID :
                                                    k \in 1..Len(pending')}
                        /\ recent' = Expected(rp)
                   ELSE /\ pending' = pending
                        /\ recent' = recent]_vars

\* Scenarios 1 and 2 in one pass: pong1 reported for entry 1, the failure
\* of ping2 for entry 2, both consumed
C15_Witness ==
    /\ PassEnded("t1")
    /\ tick["t1"].reports =
          << [requestID |-> 1, rep |-> "pong1", bad |-> ""],
             [requestID |-> 2, rep |-> "", bad |-> "ping2 error"] >>
    /\ pending = <<>>
    /\ recent = "error: ping2 error"

\* C16: a Tick whose fetch of the due entries fails is over at once: no
\* handler is invoked and no follow-up Call issued in that pass, and the
\* entries persisted are as they were.
C16_FetchFailure ==
    /\ [](\A t \in Tickers :
            tick[t].fetched = "failed"
            => /\ tick[t].phase = "Idle"
               /\ tick[t].handled = <<>>
               /\ tick[t].reports = <<>>)
    /\ [][\A t \in Tickers :
            (tick[t].phase = "Fetching" /\ tick'[t].fetched = "failed")
            => /\ pending' = pending
               /\ hist' = hist
               /\ recent' = recent]_vars

\* a pass has aborted with two entries due, both still pending and never
\* handled
C16_Witness ==
    /\ PassEnded("t1")
    /\ tick["t1"].fetched = "failed"
    /\ Len(pending) = 2
    /\ \A k \in 1..2 :
          /\ pending[k].batchName = "test_batch"
          /\ pending[k].scheduledTime <= tick["t1"].now
          /\ hist[pending[k].requestID].dispatched = 0

\* C17: Register for a queue name that has a handler fails as a
\* configuration error and changes no registration; a first Register
\* succeeds and registers what it was given; a registration once made
\* stays, and the handler a pass invokes is the one registered for its
\* queue.
C17_OneHandler ==
    /\ [](\A t \in Tickers :
            tick[t].phase = "Reporting"
            => tick[t].outcome =
                 Handler(registry[tick[t].queue].handler,
                         tick[t].due[tick[t].i].payload))
    /\ [][\A q \in QueueNames :
            /\ registry[q].handler # "none" => registry'[q] = registry[q]
            /\ (registered'.queue = q /\ registered' # registered)
               => IF registry[q].handler # "none"
                  THEN /\ registered'.err = "ConfigurationError"
                       /\ registry' = registry
                  ELSE /\ registered'.err = ""
                       /\ registry' = [registry EXCEPT ![q] =
                             [handler  |-> registered'.handler,
                              interval |-> registered'.interval]]]_vars

\* a second Register for test_batch, with another handler and interval,
\* has failed, and the pass after it has used the handler of Test001
C17_Witness ==
    /\ registered = [queue |-> "test_batch", handler |-> "other",
                     interval |-> "2h", err |-> "ConfigurationError"]
    /\ registry["test_batch"] = [handler |-> "Test001", interval |-> "1h"]
    /\ PassEnded("t1")
    /\ tick["t1"].reports = <<[requestID |-> 1, rep |-> "pong1", bad |-> ""]>>

\* C18: an entry is given to the handler only while the backend holds it
\* as pending, and a second time only after a follow-up Call for it
\* failed to land; an entry whose every follow-up landed, the report of a
\* handler failure included, is given to the handler once.
C18_Redelivery ==
    /\ [](\A id \in 1..MaxEntries :
            /\ hist[id].dispatched >= 2 => hist[id].lost
            /\ ~hist[id].lost => hist[id].dispatched <= 1
            /\ hist[id].landed <= 1
            /\ hist[id].landed = 1 => id \notin PendingIDs)
    /\ [][\A id \in 1..MaxEntries :
            hist'[id].dispatched > hist[id].dispatched => id \in PendingIDs]_vars

\* ping1 was handled twice: its first follow-up was lost, the second
\* landed
C18_Witness ==
    /\ hist[1].dispatched = 2
    /\ hist[1].lost
    /\ ~hist[1].bad
    /\ hist[1].landed = 1
    /\ recent = "pong1"
    /\ pending = <<>>

\* C19: Tick passes on one queue are not reentrant. As long as no pass
\* fetched an entry that another pass in progress had fetched, an entry goes
\* to the handler a second time only after a follow-up for it was lost
\* (the redelivery of C18) and its follow-up lands at most once; two passes
\* that interleave reach the state of C19_Witness.
C19_SerializedTicks ==
    \A id \in 1..MaxEntries :
        ~hist[id].raced =>
            /\ hist[id].landed <= 1
            /\ ~hist[id].lost => hist[id].dispatched <= 1

\* two interleaved passes both gave entry 1 to the handler and both
\* reported it, with no follow-up lost
C19_Witness ==
    /\ hist[1].raced /\ ~hist[1].lost
    /\ hist[1].dispatched = 2 /\ hist[1].landed = 2
    /\ \A t \in Tickers :
          /\ \E k \in 1..Len(tick[t].handled) : tick[t].handled[k] = 1
          /\ \E k \in 1..Len(tick[t].reports) : tick[t].reports[k].requestID = 1

\* the positions of the applied Configs made by the With* function name
Setters(name) == {k \in 1..Len(applied) : applied[k][1] = name}

\* the argument of the last applied Config made by name, or the zero value
LastValue(name, zero) ==
    IF Setters(name) = {} THEN zero
    ELSE applied[CHOOSE k \in Setters(name) : \A j \in Setters(name) : j <= k][2]

\* the positions of the applied Configs that set the dependent transaction
\* id: WithDependentTxID, and WithConditionalDependentTxID on a draft that
\* satisfies its condition
DependentSetters ==
    {k \in 1..Len(applied) :
        \/ applied[k][1] = "WithDependentTxID"
        \/ /\ applied[k][1] = "WithConditionalDependentTxID"
           /\ LET r == ApplyConfigs(SubSeq(applied, 1, k - 1), NewRequestOptions)
              IN  r.DisableWritePolling \/ r.DependentTxID # ""}

\* every scalar field holds what the last Config that sets it gave
LastScalarWins ==
    /\ opt.Endpoint = LastValue("WithEndpoint", "")
    /\ opt.ID = LastValue("WithID", "")
    /\ opt.AuthToken = LastValue("WithAuthToken", "")
    /\ opt.Creator = LastValue("WithCreator", "")
    /\ opt.TimestampGenerator = LastValue("WithTimestampGenerator", "nil")
    /\ opt.MinEndorsers = LastValue("WithMinEndorsers", 0)
    /\ opt.DisableWritePolling = LastValue("WithDisableWritePolling", FALSE)
    /\ opt.CCFetchURLDowngrade = LastValue("WithCCFetchURLDowngrade", FALSE)
    /\ opt.CCFetchURLProxy = LastValue("WithCCFetchURLProxy", "")
    /\ opt.Ctx = LastValue("WithContext", NilCtx)
    /\ opt.DependentTxID =
          IF DependentSetters = {} THEN ""
          ELSE applied[CHOOSE k \in DependentSetters :
                          \A j \in DependentSetters : j <= k][2]

\* the header entries the Config m contributes
HeaderEntries(m) ==
    IF m[1] = "WithHeader" THEN [x \in {m[2]} |-> m[3]] ELSE EmptyMap

\* the transient data entries the Config m contributes
TransientEntries(m) ==
    CASE m[1] = "WithTransientData"    -> [x \in {m[2]} |-> m[3]]
      [] m[1] = "WithTransientDataMap" -> m[2]
      [] OTHER                         -> EmptyMap

\* the entries of all applied Configs in one map, a later entry replacing
\* an earlier one of the same key
MergedHeaders ==
    LET at(x) == {k \in 1..Len(applied) : x \in DOMAIN HeaderEntries(applied[k])}
    IN  [x \in UNION {DOMAIN HeaderEntries(applied[k]) : k \in 1..Len(applied)} |->
           HeaderEntries(applied[CHOOSE k \in at(x) : \A j \in at(x) : j <= k])[x]]

MergedTransient ==
    LET at(x) == {k \in 1..Len(applied) : x \in DOMAIN TransientEntries(applied[k])}
    IN  [x \in UNION {DOMAIN TransientEntries(applied[k]) : k \in 1..Len(applied)} |->
           TransientEntries(applied[CHOOSE k \in at(x) : \A j \in at(x) : j <= k])[x]]

\* C20 as stated: folding the Configs over the empty draft, the last Config
\* that sets a scalar field wins, and the headers, the transient data and
\* the endorsement filter hold the entries contributed by all the Configs.
C20_Original ==
    /\ LastScalarWins
    /\ opt.Headers = MergedHeaders
    /\ opt.Transient = MergedTransient
    /\ \A k \in Setters("WithMSPFilter") :
          \A j \in 1..Len(applied[k][2]) :
             \E i \in 1..Len(opt.MSPFilter) : opt.MSPFilter[i] = applied[k][2][j]

\* C20 as amended: folding the Configs over the empty draft, the last
\* Config that sets a scalar field wins; the headers and the transient data
\* hold the entries contributed by all the Configs, a later entry replacing
\* an earlier one of the same key; the endorsement filter is the list of
\* the last WithMSPFilter, which replaces the list set before.
C20_OptionFolding ==
    /\ LastScalarWins
    /\ opt.Headers = MergedHeaders
    /\ opt.Transient = MergedTransient
    /\ opt.MSPFilter = LastValue("WithMSPFilter", <<>>)

\* two filters were given: the draft holds the second one only
C20_Witness ==
    /\ applied = << <<"WithMSPFilter", <<"msp1">>>>, <<"WithMSPFilter", <<"msp2">>>> >>
    /\ opt.MSPFilter = <<"msp2">>


ContextSetters(configs) ==
    {i \in 1..Len(configs) : configs[i][1] = "WithContext"}

\* the context the last WithContext of a list gave, nil if there is none
LastContext(configs) ==
    IF ContextSetters(configs) = {} THEN NilCtx
    ELSE configs[CHOOSE i \in ContextSetters(configs) :
                    \A j \in ContextSetters(configs) : j <= i][2]

\* C23 as stated: FlattenContext returns the context of the last
\* WithContext; it fails, returning none, exactly when no Config of the
\* list supplied a context that is not nil.
C23_Original ==
    \A k \in RunNames :
        runs[k].done =>
            /\ runs[k].fc.err # "" <=>
                  ~\E i \in ContextSetters(runs[k].configs) :
                       runs[k].configs[i][2] # NilCtx
            /\ runs[k].fc.err = "" => runs[k].fc.ctx = LastContext(runs[k].configs)

\* C23 as amended: FlattenContext returns the context of the last
\* WithContext; it fails with "expected context", returning none, exactly
\* when the list has no WithContext or its last WithContext gave a nil
\* context, and for no other reason, unserializable parameters included.
C23_FlattenContext ==
    \A k \in RunNames :
        runs[k].done =>
            IF LastContext(runs[k].configs) = NilCtx
            THEN runs[k].fc = [err |-> "expected context", ctx |-> NilCtx]
            ELSE runs[k].fc = [err |-> "", ctx |-> LastContext(runs[k].configs)]

\* a context was given and a nil one after it: FlattenContext fails; and
\* with parameters that cannot be serialized it returns the context
C23_Witness ==
    /\ runs["first"].done /\ runs["second"].done
    /\ runs["first"].configs = << <<"WithContext", "ctxA">>, <<"WithContext", NilCtx>> >>
    /\ runs["first"].fc.err = "expected context"
    /\ runs["second"].configs = << <<"WithContext", "ctxA">>, <<"WithParams", ParamsChan>> >>
    /\ runs["second"].fc = [err |-> "", ctx |-> "ctxA"]
    /\ runs["second"].fo.err # ""

\* the error of FlattenOptions: the one json.Marshal gives
SerializationError == jsonMarshal(ParamsChan).err

\* C22: the serialization failure comes before any remote call. No
\* operation waits for the backend with options FlattenOptions failed on;
\* an operation that returns without having reached the backend returns the
\* serialization error, no response, and leaves lastTransactionID, every
\* slot and the backend as they were; and the serialization error is
\* returned in no other way.
C22_SerializationFirst ==
    /\ [](\A c \in Chains : pc[c] = "waiting" => call[c].sent.err = "")
    /\ [][\A c \in Chains :
            /\ (pc[c] = "idle" /\ pc'[c] = "returned")
               => /\ result'[c].err = SerializationError
                  /\ result'[c].txid = ""
                  /\ UNCHANGED <<dependent, slot, nextTx, call, lastRet>>
            /\ (pc[c] # "returned" /\ pc'[c] = "returned"
                  /\ result'[c].err = SerializationError)
               => pc[c] = "idle"
         ]_vars

\* a Call through the mutable-state wrapper has returned the
\* serialization error while the wrapper holds an id
C22_Witness ==
    /\ pc["c1"] = "returned"
    /\ result["c1"].op = "Call"
    /\ result["c1"].wrapper = "coh"
    /\ result["c1"].err = SerializationError
    /\ dependent = "tx-1"
    /\ call["c1"] = NoCall

\* the draft after the first k of the applied Configs
DraftAfter(k) == ApplyConfigs(SubSeq(applied, 1, k), NewRequestOptions)

\* the Configs that set the empty dependent transaction id
ClearingConfigs ==
    { <<"WithDependentTxID", "">>, <<"WithConditionalDependentTxID", "">> }

\* C24 as stated: if the dependent transaction id of the draft is not empty
\* after some Config of the list, it is not empty in the options the list
\* flattens to.
C24_Original ==
    (\E k \in 1..Len(applied) : DraftAfter(k).DependentTxID # "")
    => opt.DependentTxID # ""

\* C24 as amended: a dependent transaction id that is not empty after some
\* Config of the list is empty in the flattened options only if a later
\* Config of the list sets the empty id (WithDependentTxID("") or
\* WithConditionalDependentTxID("")); no other Config clears it, and what
\* the mutable-state wrapper appends to the list for any stored id does not.
C24_NeverCleared ==
    /\ \A k \in 1..Len(applied) :
          (DraftAfter(k).DependentTxID # "" /\ opt.DependentTxID = "")
          => \E j \in (k + 1)..Len(applied) : applied[j] \in ClearingConfigs
    /\ \A d \in {"", "tx-1", UserTx} :
          opt.DependentTxID # ""
          => ApplyConfigs(CoherentConfigs2(d, <<>>), opt).DependentTxID # ""

\* an id was set and the Config the mutable-state wrapper appends came
\* after it: the draft holds an id
C24_Witness ==
    /\ applied = << <<"WithDependentTxID", UserTx>>,
                    <<"WithConditionalDependentTxID", "tx-1">> >>
    /\ opt.DependentTxID = "tx-1"

\* a method of PluginRPC has returned after client.Call returned nil
Answered == got.op # "none" /\ ~got.transport

\* the backend implementation returned an error to the server
BackendFailed == got.backend.err.type # "nil"

\* C25: the timeout classification survives the channel: for every error
\* the backend returns, the error the caller gets from the method of
\* PluginRPC has the backend's text, and IsTimeoutError of it is what the
\* backend's IsTimeoutError said.
C25_TimeoutSurvives ==
    (Answered /\ BackendFailed)
    => /\ ErrorText(got.ret.err) = got.backend.err.text
       /\ IsTimeoutError(got.ret.err) = got.backend.err.timeout

\* C26: transport failure and backend error are told apart on every
\* method: when client.Call fails the caller gets errRPC, which is no Error
\* and no timeout; when the backend returned an error it gets an *Error,
\* never errRPC; both times the result is the zero value.
C26_Distinguishable ==
    got.op # "none" =>
        /\ got.transport
           => /\ got.ret.err = errRPC
              /\ ~IsTimeoutError(got.ret.err)
              /\ got.ret.res = Zero(ResultField(got.op))
        /\ (Answered /\ BackendFailed)
           => /\ got.ret.err.type = "*Error"
              /\ got.ret.err.type # errRPC.type
              /\ got.ret.res = Zero(ResultField(got.op))

\* the backend's Call timed out and its response was lost on the way: the
\* caller has the RPC failure
C26_Witness ==
    /\ got.op = "Call"
    /\ got.transport
    /\ got.backend.err.type # "nil" /\ got.backend.err.timeout
    /\ got.ret = [res |-> "nil", err |-> errRPC]
    /\ Len(invoked) = 1

\* C27: forwarding is faithful: a method of PluginRPC that client.Call did
\* not fail makes the server call the same method of the backend once, with
\* the same arguments, and returns what that call returned.
C27_Faithful ==
    Answered =>
        /\ invoked = <<[op |-> got.op, args |-> got.args]>>
        /\ ~BackendFailed
           => got.ret = [res |-> ImplResult(got.op, got.args), err |-> NilError]
        /\ BackendFailed
           => got.ret = [res |-> Zero(ResultField(got.op)),
                         err |-> newError(got.backend.err)]

\* C28: the wrappers do not replace or hide errors: an operation made on
\* coherence wrappers nested to any depth returns the error the instance
\* handle returned, and no response with it; an operation that returns an
\* error leaves the state of every wrapper and every slot as it was.
C28_ErrorsPassThrough ==
    /\ [](( /\ pc["c1"] = "returned"
            /\ result["c1"].wrapper = "nested" )
          => /\ result["c1"].err = result["c1"].handle
             /\ result["c1"].err # "" => result["c1"].txid = "")
    /\ [][( /\ pc'["c1"] = "returned"
            /\ pc["c1"] # "returned"
            /\ result'["c1"].err # "" )
          => /\ layers' = layers
             /\ slot' = slot
         ]_vars

\* a Call through a mutable-state wrapper on a context-scoped wrapper,
\* both holding an id, has returned the error of the backend; last is
\* history, the id of the last Call without error through the wrapper
C28_Witness ==
    /\ Len(layers) = 2
    /\ layers[1].kind = "coh" /\ layers[1].dependent = "tx-1"
    /\ layers[2].kind = "ctx" /\ slot["ctxA"] = "tx-1"
    /\ pc["c1"] = "returned"
    /\ result["c1"].op = "Call"
    /\ result["c1"].err = "backend: failed"
    /\ result["c1"].handle = "backend: failed"

\* C29: a Call through the mutable-state wrapper that returns a Response
\* with an empty transaction id leaves the wrapper's last transaction id
\* empty, and the next Call through the wrapper reaches the Substrate with
\* the caller's own options and nothing injected, also when the caller's
\* options disable write polling or name a dependency.
C29_ResetOnEmpty ==
    /\ [](\A c \in Chains :
            (Waiting(c, "coh") /\ lastRet["coh"] = "")
            => /\ dependent = ""
               /\ call[c].sent = call[c].plain)
    /\ [][\A c \in Chains :
            ( /\ CallReturns(c, "coh")
              /\ result'[c].err = ""
              /\ result'[c].txid = "" )
            => dependent' = ""
         ]_vars

\* after a Call that returned an id and one that returned an empty id, a
\* Call whose options disable write polling waits with no dependency
C29_Witness ==
    \E c \in Chains :
        /\ Waiting(c, "coh")
        /\ lastRet["coh"] = ""
        /\ nextTx >= 1
        /\ Plain(c).DisableWritePolling
        /\ SentDep(c) = ""

\* C30: in one Tick pass no request id is given to the handler of the
\* queue twice, whether the handler returned a result or an error and
\* whether the follow-up Calls of the pass landed or not.
C30_AtMostOnce ==
    \A t \in Tickers :
        /\ \A id \in 1..MaxEntries : Occurrences(tick[t].handled, id) <= 1
        /\ Len(tick[t].handled) <= Len(tick[t].due)

\* a pass over two entries has ended: the handler failed for one of them
\* and the follow-up Call of one of them was lost
C30_Witness ==
    /\ PassEnded("t1")
    /\ Len(tick["t1"].handled) = 2
    /\ \E k \in 1..2 : tick["t1"].reports[k].bad # ""
    /\ \E k \in 1..2 :
          /\ hist[tick["t1"].handled[k]].lost
          /\ tick["t1"].handled[k] \in PendingIDs

\* the phases a pass goes through, in their order
PhaseOrder ==
    { <<"Idle", "Fetching">>,
      <<"Fetching", "Dispatching">>, <<"Fetching", "Idle">>,
      <<"Dispatching", "Reporting">>,
      <<"Reporting", "Dispatching">>, <<"Reporting", "Idle">> }

\* C31: when the handler and the Calls of a pass return, every Tick pass
\* ends in Idle; a pass goes from Idle through Fetching, Dispatching and
\* Reporting in this order, or from Fetching to Idle; in Idle with a
\* handler registered a Tick can begin; and an entry is given to the
\* handler only by the Dispatching step of a pass, for the entry the pass
\* is at.
C31_PassTerminates ==
    /\ \A t \in Tickers : (tick[t].phase # "Idle") ~> (tick[t].phase = "Idle")
    /\ [][\A t \in Tickers :
            tick'[t].phase # tick[t].phase
            => <<tick[t].phase, tick'[t].phase>> \in PhaseOrder]_vars
    /\ []( ( /\ tick["t1"].phase = "Idle"
             /\ registry["test_batch"].handler # "none" )
           => ENABLED Tick("t1", "test_batch") )
    /\ [][\A id \in 1..MaxEntries :
            hist'[id].dispatched # hist[id].dispatched
            => \E t \in Tickers :
                  /\ tick[t].phase = "Dispatching"
                  /\ tick[t].fetched = "ok"
                  /\ tick[t].due[tick[t].i].requestID = id]_vars

\* a pass over two entries has ended in Idle after one that ended with the
\* failure of its fetch
C31_Witness ==
    /\ PassEnded("t1")
    /\ tick["t1"].fetched = "ok"
    /\ Len(tick["t1"].reports) = 2
    /\ failures = 1
    /\ \A id \in 1..2 : ~hist[id].lost

\* the Config the Call of c appended has reached the instance handle: the
\* dependent transaction id sent is the one its wrapper held
OwnInjection(c) ==
    (pc[c] = "waiting" /\ call[c].appended)
    => call[c].sent.fo.DependentTxID = call[c].config[2]

\* C32: a Call through a coherence wrapper writes neither the elements of
\* the option list it was given nor the room behind them, and of two
\* Calls given the same list each reaches the instance handle with the
\* dependency option it appended itself.
C32_ListUntouched ==
    /\ backing = NoConfig
    /\ \A c \in Chains : OwnInjection(c)

\* the caller holds a context-scoped wrapper made on a mutable-state
\* wrapper made on the instance handle
CtxOnCoherent ==
    /\ Len(layers) = 2
    /\ layers[1].kind = "ctx"
    /\ layers[2].kind = "coh"

\* C33: a Call on a context-scoped wrapper made on a mutable-state wrapper,
\* with a carrier whose slot holds an id, reaches the Substrate with the id
\* of the slot as its dependent transaction id.
C33_CarrierAuthority ==
    ( /\ CtxOnCoherent
      /\ pc["c1"] = "waiting"
      /\ call["c1"].op = "Call"
      /\ call["c1"].carrier # "none"
      /\ slot[call["c1"].carrier] # "" )
    => call["c1"].sent.dep = slot[call["c1"].carrier]

\* context n was derived from context a, or is a
RECURSIVE DerivedFrom(_, _)
DerivedFrom(n, a) ==
    IF n = a THEN TRUE
    ELSE IF n = 0 THEN FALSE
    ELSE DerivedFrom(contexts[n].parent, a)

\* C34: a context derived from a context of ContextWithTransactionID reads
\* the slot of the last such context it was derived from, and a Call made
\* with it writes that slot and no other, so the slot of a context of
\* ContextWithTransactionID made from another is empty at first and its
\* updates leave the outer slot alone; GetContextTransactionID returns the
\* id of the most recent successful Call made with the carrier, and the
\* empty id for a fresh carrier and for a context without a carrier.
C34_SlotOfCarrier ==
    /\ [](\A n \in 0..Len(contexts) :
            GetContextTransactionID(contexts, n) =
               IF Made(contexts, n) = 0 THEN ""
               ELSE IF contexts[Made(contexts, n)].last = "none" THEN ""
               ELSE contexts[Made(contexts, n)].last)
    /\ [][\A i \in 1..Len(contexts) :
            contexts'[i].dependent # contexts[i].dependent
            => /\ contexts[i].own
               /\ contexts'[i].last = contexts'[i].dependent
               /\ \A j \in 1..Len(contexts) \ {i} :
                     contexts'[j].dependent = contexts[j].dependent
         ]_vars
    /\ [][Len(contexts') > Len(contexts)
          => GetContextTransactionID(contexts', Len(contexts')) =
                IF contexts'[Len(contexts')].own THEN ""
                ELSE GetContextTransactionID(contexts, contexts'[Len(contexts')].parent)
         ]_vars

\* context 2 of ContextWithTransactionID was made from context 1 of
\* ContextWithTransactionID and context 3 derived from context 2; after a
\* Call with each carrier the inner slot holds tx-2 and the outer tx-1
C34_Witness ==
    /\ Len(contexts) = 3
    /\ contexts[1].own /\ contexts[2].own /\ ~contexts[3].own
    /\ DerivedFrom(3, 2) /\ DerivedFrom(2, 1)
    /\ GetContextTransactionID(contexts, 1) = "tx-1"
    /\ GetContextTransactionID(contexts, 3) = "tx-2"
    /\ contexts[2].last = "tx-2"

\* C35: GetLastTransactionID of a mutable-state wrapper returns the id of
\* the most recent Call without error through it, and the empty id if
\* there was none, whatever Init, Call, QueryInfo and QueryBlock came
\* before; of an instance handle and of a context-scoped wrapper it
\* returns the empty id, also when the context-scoped wrapper was made on
\* a mutable-state wrapper that holds an id.
C35_LastTransactionID ==
    GetLastTransactionID(layers) =
        IF layers # <<>> /\ layers[1].kind = "coh" /\ layers[1].last # "none"
        THEN layers[1].last
        ELSE ""

\* a context-scoped wrapper on a mutable-state wrapper that holds tx-2,
\* after a failed Call and a QueryInfo
C35_Witness ==
    /\ CtxOnCoherent
    /\ layers[2].dependent = "tx-2"
    /\ layers[1].last = "tx-2"
    /\ pc["c1"] = "returned"
    /\ result["c1"].op = "QueryInfo"
    /\ GetLastTransactionID(layers) = ""

\* C36: when Connect has returned, every backend process it started has
\* been killed, whether the closure returned an error or not, and Connect
\* has returned the closure's error if there was one.
C36_Released ==
    conn.phase = "returned"
    => /\ conn.killed = conn.started
       /\ conn.user # "" => conn.ret = conn.user

\* C37: every method of PluginRPCServer returns nil; when the backend
\* returned an error the reply holds the Error made of it, with the text of
\* the error and what the backend's IsTimeoutError says of it, and the zero
\* value as result; when the backend returned no error the reply holds its
\* result and no Error.
C37_ReplyShape ==
    wire.phase = "response" =>
        /\ wire.err = NilError
        /\ IF wire.backend.err.type # "nil"
           THEN /\ wire.resp["Err"].type = "*Error"
                /\ wire.resp["Err"].Diagnostic = wire.backend.err.text
                /\ wire.resp["Err"].IsTimeoutError = wire.backend.err.timeout
                /\ \A f \in DOMAIN wire.resp \ {"Err"} : wire.resp[f] = Zero(f)
           ELSE /\ wire.resp["Err"] = NilError
                /\ \A f \in DOMAIN wire.resp \ {"Err"} :
                      wire.resp[f] = wire.backend.res

\* the backend's Call returned a value and an error that is a timeout: the
\* reply holds the Error and no Response
C37_Witness ==
    /\ wire.phase = "response"
    /\ wire.method = "Plugin.Call"
    /\ wire.backend.err.type # "nil" /\ wire.backend.err.timeout
    /\ wire.backend.res = "response"
    /\ wire.resp["Response"] = "nil"
    /\ wire.resp["Err"].IsTimeoutError

=============================================================================
